---- MODULE Spec2Model ----
\* Model of the chat-stream orchestration of apps/backend/src/chat/chat.service.ts:
\* ChatService.createChatStream (quota, chat creation, user-message persistence,
\* stream-id registration, generation, onFinish persistence, the SSE pump) and
\* ChatService.getResumableStream (the resumption state machine).
\*
\* Time is counted in ticks of half a second, so that ages such as 15.5 s exist.
EXTENDS Integers, Sequences, FiniteSets, TLC

\* ---------------------------------------------------------------------------
\* Bounds of the model
\* ---------------------------------------------------------------------------
Users == {"u1", "u2"}
ChatIds == {"c1"}
Procs == {1}
MaxRequests == 3
GenLen == 2
MaxTime == 32
MaxFrames == 3
MaxKeys == 2
MaxSide == 1
MaxIdLen == 4
MaxElements == 6
MaxTurns == 3
MaxLoaded == 3
MaxMessageLen == 3
MaxDeltas == 2
TickSteps == {31, 32}

\* ---------------------------------------------------------------------------
\* Program constants
\* ---------------------------------------------------------------------------
TicksPerSecond == 2
StaleSeconds == 15
QuotaWindowHours == 24

NoChat == [userId |-> "-", visibility |-> "-", title |-> "-"]
Visibilities == {"public", "private"}

VARIABLES adapter, tool, streamContext, now, chats, msgs, streams, channel, proc, nreq, resume

vars == <<adapter, tool, streamContext, now, chats, msgs, streams, channel, proc, nreq, resume>>

\* ---------------------------------------------------------------------------
\* Store queries (@repo/db)
\* ---------------------------------------------------------------------------
SelectByChat(rows, chatId) == SelectSeq(rows, LAMBDA r : r.chatId = chatId)

getMessagesByChatId(chatId) == SelectByChat(msgs, chatId)

getStreamIdsByChatId(chatId) == SelectByChat(streams, chatId)

\* user-role messages of the user's chats created within the last differenceInHours
getMessageCountByUserId(userId, differenceInHours) ==
  Cardinality({i \in DOMAIN msgs :
     /\ msgs[i].role = "user"
     /\ chats[msgs[i].chatId].userId = userId
     /\ now - msgs[i].createdAt <= differenceInHours * 3600 * TicksPerSecond})

UserTypeOf(user) == IF user = "u1" THEN "guest" ELSE "regular"

maxMessagesPerDay(userType) == IF userType = "guest" THEN 1 ELSE 2

\* ---------------------------------------------------------------------------
\* createChatStream
\* ---------------------------------------------------------------------------
IdleProc == [pc |-> "idle", req |-> 0, chatId |-> "-", user |-> "-",
             msgRole |-> "-", approval |-> FALSE, origLast |-> 0,
             outcome |-> "none", streamId |-> 0,
             produced |-> 0, delivered |-> 0,
             sub |-> "-", fin |-> FALSE,
             orig |-> <<>>, events |-> <<>>, ended |-> FALSE, failed |-> FALSE,
             ops |-> <<>>, title |-> "none"]

\* chat.service.ts:127
QuotaExceeded(messageCount, max) == messageCount > max

\* a slot can take a new request once its previous request has returned and
\* its generation (if any) can take no further step
Reusable(p) ==
  \/ proc[p].pc \in {"idle", "done", "rejected"}
  \/ /\ proc[p].pc = "stream"
     /\ proc[p].sub = "off"
     /\ proc[p].ended
     /\ (proc[p].fin \/ proc[p].delivered < proc[p].produced)

LastOf_first(s) == s[1]

\* Array.prototype.at(-1)
LastOf(s) == s[Len(s)]

\* id of the last message of dto.messages when it is an assistant message
LastAssistantId(chatId) ==
  LET t == getMessagesByChatId(chatId) IN
  IF t # <<>> /\ LastOf(t).role = "assistant" THEN LastOf(t).id ELSE 0

\* dto.messages as the client holds it: the ids of the chat's transcript
ClientTranscript(chatId) ==
  LET t == getMessagesByChatId(chatId) IN [i \in DOMAIN t |-> t[i].id]

Start(p, chatId, user, msgRole, approval) ==
  /\ Reusable(p)
  /\ nreq < MaxRequests
  /\ nreq' = nreq + 1
  /\ LET count == getMessageCountByUserId(user, QuotaWindowHours)
         base == [IdleProc EXCEPT !.req = nreq + 1, !.chatId = chatId,
                   !.user = user, !.msgRole = msgRole, !.approval = approval,
                   !.origLast = IF approval THEN LastAssistantId(chatId) ELSE 0,
                   !.orig = IF approval THEN ClientTranscript(chatId) ELSE <<>>]
     IN IF QuotaExceeded(count, maxMessagesPerDay(UserTypeOf(user)))
        THEN proc' = [proc EXCEPT ![p] =
                 [IdleProc EXCEPT !.pc = "rejected", !.req = nreq + 1,
                                  !.user = user, !.chatId = chatId,
                                  !.outcome = "rate_limit:chat"]]
        ELSE proc' = [proc EXCEPT ![p] = [base EXCEPT !.pc = "getChat"]]
  /\ UNCHANGED <<adapter, tool, streamContext, now, chats, msgs, streams, channel, resume>>

\* message ids: message.id of the request and the generated response id
UserMsgId(req) == 2 * req - 1
AssistantMsgId(req) == 2 * req

AfterChat_unsaved(p) == "createStreamId"

\* lines 165-178
AfterChat(p) == IF proc[p].msgRole = "user" THEN "saveUserMsg" ELSE "createStreamId"

GetChat_saveFirst(p) ==
  /\ proc[p].pc = "getChat"
  /\ LET chat == chats[proc[p].chatId] IN
     IF chat # NoChat
     THEN IF chat.userId # proc[p].user
          THEN proc' = [proc EXCEPT ![p] =
                 [IdleProc EXCEPT !.pc = "rejected", !.req = proc[p].req,
                                  !.user = proc[p].user, !.chatId = proc[p].chatId,
                                  !.outcome = "forbidden:chat"]]
          ELSE proc' = [proc EXCEPT ![p].pc = AfterChat(p)]
     ELSE IF proc[p].msgRole = "user"
          THEN proc' = [proc EXCEPT ![p].pc = "saveChat"]
          ELSE proc' = [proc EXCEPT ![p].pc = AfterChat(p)]
  /\ msgs' = Append(msgs, [id |-> UserMsgId(proc[p].req), chatId |-> proc[p].chatId,
                           role |-> "user", createdAt |-> now, parts |-> 1])
  /\ UNCHANGED <<adapter, tool, streamContext, now, chats, streams, channel, nreq, resume>>

\* lines 136-159: the ownership check of an existing chat, before any write
GetChat(p) ==
  /\ proc[p].pc = "getChat"
  /\ LET chat == chats[proc[p].chatId] IN
     IF chat # NoChat
     THEN IF chat.userId # proc[p].user
          THEN proc' = [proc EXCEPT ![p] =
                 [IdleProc EXCEPT !.pc = "rejected", !.req = proc[p].req,
                                  !.user = proc[p].user, !.chatId = proc[p].chatId,
                                  !.outcome = "forbidden:chat"]]
          ELSE proc' = [proc EXCEPT ![p].pc = AfterChat(p)]
     ELSE IF proc[p].msgRole = "user"
          THEN proc' = [proc EXCEPT ![p].pc = "saveChat"]
          ELSE proc' = [proc EXCEPT ![p].pc = AfterChat(p)]
  /\ UNCHANGED <<adapter, tool, streamContext, now, chats, msgs, streams, channel, nreq, resume>>

NewChat_default(userId, selectedVisibilityType) ==
  [userId |-> userId, visibility |-> "private", title |-> "New chat"]

\* the record of lines 152-157
NewChat(userId, selectedVisibilityType) ==
  [userId |-> userId, visibility |-> selectedVisibilityType, title |-> "New chat"]

\* dto.selectedVisibilityType is read only here; inserting a chat id that is
\* already present is taken to be rejected by the Store. Line 158 starts the
\* title task without awaiting it.
SaveChat(p, selectedVisibilityType) ==
  /\ proc[p].pc = "saveChat"
  /\ IF chats[proc[p].chatId] # NoChat
     THEN /\ proc' = [proc EXCEPT ![p] =
                 [IdleProc EXCEPT !.pc = "rejected", !.req = proc[p].req,
                                  !.user = proc[p].user, !.chatId = proc[p].chatId,
                                  !.outcome = "db_error"]]
          /\ UNCHANGED chats
     ELSE /\ chats' = [chats EXCEPT ![proc[p].chatId] =
                 NewChat(proc[p].user, selectedVisibilityType)]
          /\ proc' = [proc EXCEPT ![p].pc = "saveUserMsg", ![p].title = "pending"]
  /\ UNCHANGED <<adapter, tool, streamContext, now, msgs, streams, channel, nreq, resume>>

SaveUserMsg(p) ==
  /\ proc[p].pc = "saveUserMsg"
  /\ msgs' = Append(msgs, [id |-> UserMsgId(proc[p].req), chatId |-> proc[p].chatId,
                           role |-> "user", createdAt |-> now, parts |-> 1])
  /\ proc' = [proc EXCEPT ![p].pc = "createStreamId"]
  /\ UNCHANGED <<adapter, tool, streamContext, now, chats, streams, channel, nreq, resume>>

CreateStreamId(p) ==
  /\ proc[p].pc = "createStreamId"
  /\ LET streamId == Len(streams) + 1 IN
     /\ streams' = Append(streams, [streamId |-> streamId, chatId |-> proc[p].chatId])
     /\ proc' = [proc EXCEPT ![p].pc = "stream", ![p].streamId = streamId,
                             ![p].outcome = "stream", ![p].sub = "on"]
  /\ UNCHANGED <<adapter, tool, streamContext, now, chats, msgs, channel, nreq, resume>>

\* ---------------------------------------------------------------------------
\* The generation behind the returned observable (chat.service.ts:187-423)
\* ---------------------------------------------------------------------------
\* streamText produces its events whether or not the outbound stream is read:
\* result.consumeStream() (line 252) drains the model stream on its own.
ModelEvent(k) == IF k = GenLen THEN "finish" ELSE "text-delta"

\* the events of the merged model stream (lines 255-259)
ModelOriginated(e) == e \in {"text-delta", "finish"}

ModelEvents(events) == SelectSeq(events, ModelOriginated)

GenEmit(p) ==
  /\ proc[p].pc = "stream"
  /\ ~proc[p].ended
  /\ LET k == Len(ModelEvents(proc[p].events)) + 1 IN
     proc' = [proc EXCEPT ![p].produced = @ + 1,
                          ![p].events = Append(@, ModelEvent(k)),
                          ![p].ended = (k = GenLen)]
  /\ UNCHANGED <<adapter, tool, streamContext, now, chats, msgs, streams, channel, nreq, resume>>

\* pump: reader.read() then subscriber.next() (lines 350-394); the reader is the
\* only consumer of the assembled stream
Pump(p) ==
  /\ proc[p].pc = "stream"
  /\ proc[p].sub = "on"
  /\ proc[p].delivered < proc[p].produced
  /\ proc' = [proc EXCEPT ![p].delivered = @ + 1]
  /\ UNCHANGED <<adapter, tool, streamContext, now, chats, msgs, streams, channel, nreq, resume>>

\* the observable's cleanup function (lines 413-422): releases the reader's lock
Unsubscribe(p) ==
  /\ proc[p].pc = "stream"
  /\ proc[p].sub = "on"
  /\ proc' = [proc EXCEPT ![p].sub = "off"]
  /\ UNCHANGED <<adapter, tool, streamContext, now, chats, msgs, streams, channel, nreq, resume>>

\* updateMessage({id, parts}): rewrites the parts of the row with that id
updateMessage(rows, id, parts) ==
  [i \in DOMAIN rows |-> IF rows[i].id = id THEN [rows[i] EXCEPT !.parts = parts]
                         ELSE rows[i]]

Range(f) == {f[i] : i \in DOMAIN f}

\* events written with transient: true (tools.service.ts:89-130, 163-188,
\* 269-273; code.handler.ts:30-34, 63-67)
TransientEvents == {"data-kind", "data-id", "data-title", "data-clear",
                    "data-codeDelta", "data-suggestion", "data-finish"}

\* the response message takes every event of the stream as a part, except the
\* error events and the events marked transient
IsModelPart(e) == e # "error" /\ e \notin TransientEvents

\* the parts of the response message
PartsOf(events) == Len(SelectSeq(events, IsModelPart))

\* id of the response message: the last message of originalMessages when that
\* is an assistant message (it is continued), a generated id otherwise
ResponseId(p) ==
  IF proc[p].approval /\ proc[p].origLast # 0 THEN proc[p].origLast
  ELSE AssistantMsgId(proc[p].req)

\* the messages handed to onFinish: originalMessages (approval flow only, line
\* 188) with the response message continued or appended
FinishedMessages(p) ==
  IF ~proc[p].approval THEN <<ResponseId(p)>>
  ELSE IF proc[p].origLast # 0 THEN proc[p].orig
  ELSE Append(proc[p].orig, ResponseId(p))

OnFinishOps_insertAll(isToolApprovalFlow, uiMessages, finishedMessages) ==
  [i \in DOMAIN finishedMessages |-> [op |-> "insert", id |-> finishedMessages[i]]]

\* lines 284-320: updateMessage for the ids found in uiMessages, saveMessages
\* for the others; outside the approval flow everything is saved
OnFinishOps(isToolApprovalFlow, uiMessages, finishedMessages) ==
  [i \in DOMAIN finishedMessages |->
     IF isToolApprovalFlow /\ finishedMessages[i] \in Range(uiMessages)
     THEN [op |-> "update", id |-> finishedMessages[i]]
     ELSE [op |-> "insert", id |-> finishedMessages[i]]]

StoredParts(rows, id) ==
  LET hits == SelectSeq(rows, LAMBDA r : r.id = id) IN
  IF hits = <<>> THEN 0 ELSE hits[1].parts

RECURSIVE ApplyOps(_, _, _)
ApplyOps(rows, ops, p) ==
  IF ops = <<>> THEN rows
  ELSE LET o == Head(ops)
           parts == IF o.id = ResponseId(p) THEN PartsOf(proc[p].events)
                    ELSE StoredParts(rows, o.id)
           next == IF o.op = "update" THEN updateMessage(rows, o.id, parts)
                   ELSE Append(rows, [id |-> o.id, chatId |-> proc[p].chatId,
                                      role |-> "assistant", createdAt |-> now,
                                      parts |-> parts])
       IN ApplyOps(next, Tail(ops), p)

OnFinish_early(p) ==
  /\ proc[p].pc = "stream"
  /\ ~proc[p].fin
  /\ LET ops == OnFinishOps(proc[p].approval, proc[p].orig, FinishedMessages(p))
     IN /\ msgs' = ApplyOps(msgs, ops, p)
        /\ proc' = [proc EXCEPT ![p].fin = TRUE, ![p].ops = ops]
  /\ UNCHANGED <<adapter, tool, streamContext, now, chats, streams, channel, nreq, resume>>

\* onFinish (lines 271-332) is the flush of the assembled stream: it runs once
\* the last event of the generation has been pulled through by the reader
OnFinish(p) ==
  /\ proc[p].pc = "stream"
  /\ ~proc[p].fin
  /\ proc[p].ended
  /\ proc[p].delivered = proc[p].produced
  /\ LET ops == OnFinishOps(proc[p].approval, proc[p].orig, FinishedMessages(p))
     IN /\ msgs' = ApplyOps(msgs, ops, p)
        /\ proc' = [proc EXCEPT ![p].fin = TRUE, ![p].ops = ops]
  /\ UNCHANGED <<adapter, tool, streamContext, now, chats, streams, channel, nreq, resume>>

\* done branch of the pump (lines 355-367): subscriber.complete()
Complete(p) ==
  /\ proc[p].pc = "stream"
  /\ proc[p].sub = "on"
  /\ proc[p].fin
  /\ proc' = [proc EXCEPT ![p] = [IdleProc EXCEPT !.pc = "done", !.req = proc[p].req,
                                   !.user = proc[p].user, !.outcome = "stream"]]
  /\ UNCHANGED <<adapter, tool, streamContext, now, chats, msgs, streams, channel, nreq, resume>>

\* execute throws before the model stream is merged (lines 190-259): the catch
\* block writes an error event and rethrows (lines 260-268), and the rejected
\* execute is reported by the stream as an error event of its own, whose text
\* is the one onError returns (lines 333-336); the stream then ends
ExecuteFails(p) ==
  /\ proc[p].pc = "stream"
  /\ ~proc[p].ended
  /\ proc[p].produced = 0
  /\ proc' = [proc EXCEPT ![p].events = <<"error", "error">>,
                          ![p].produced = 2,
                          ![p].ended = TRUE,
                          ![p].failed = TRUE]
  /\ UNCHANGED <<adapter, tool, streamContext, now, chats, msgs, streams, channel, nreq, resume>>

\* the model stream fails after it was merged: the failure reaches the outbound
\* stream as one error event with onError's text, and the stream ends
StreamFails(p) ==
  /\ proc[p].pc = "stream"
  /\ ~proc[p].ended
  /\ proc' = [proc EXCEPT ![p].events = Append(@, "error"),
                          ![p].produced = @ + 1,
                          ![p].ended = TRUE,
                          ![p].failed = TRUE]
  /\ UNCHANGED <<adapter, tool, streamContext, now, chats, msgs, streams, channel, nreq, resume>>

\* ---------------------------------------------------------------------------
\* Side channels of the outbound stream: the title task and the tools
\* ---------------------------------------------------------------------------
\* dataStream.write: an event written after the stream has closed is dropped
Write(p, e) ==
  IF proc[p].ended THEN proc[p]
  ELSE [proc[p] EXCEPT !.events = Append(@, e), !.produced = @ + 1]

\* the title task resolves once execute has attached its handlers (lines
\* 191-194): updateChatTitleById, then the data-chat-title event, which is
\* written without the transient mark
TitleResolves(p) ==
  /\ proc[p].pc = "stream"
  /\ proc[p].title = "pending"
  /\ chats' = [chats EXCEPT ![proc[p].chatId].title = "generated"]
  /\ proc' = [proc EXCEPT ![p] = [Write(p, "data-chat-title") EXCEPT !.title = "resolved"]]
  /\ UNCHANGED <<adapter, tool, streamContext, now, msgs, streams, channel, nreq, resume>>

\* the title task rejects once execute has attached its handlers: the catch
\* of lines 195-197 logs the error
TitleFails(p) ==
  /\ proc[p].pc = "stream"
  /\ proc[p].title = "pending"
  /\ proc' = [proc EXCEPT ![p].title = "failed"]
  /\ UNCHANGED <<adapter, tool, streamContext, now, chats, msgs, streams, channel, nreq, resume>>

\* the title task rejects while createChatStream is still at the awaits of
\* lines 166-185: the promise of line 158 has no handler yet. What an unhandled
\* rejection does is the runtime's choice: it ends the process, or it is
\* reported and the request goes on.
TitleFailsUnhandled(p, terminate) ==
  /\ proc[p].pc \in {"saveUserMsg", "createStreamId"}
  /\ proc[p].title = "pending"
  /\ proc' = [proc EXCEPT ![p] =
        IF terminate
        THEN [IdleProc EXCEPT !.pc = "terminated", !.req = proc[p].req,
                              !.user = proc[p].user, !.chatId = proc[p].chatId,
                              !.title = "failed"]
        ELSE [proc[p] EXCEPT !.title = "failed"]]
  /\ UNCHANGED <<adapter, tool, streamContext, now, chats, msgs, streams, channel, nreq, resume>>

\* a tool running inside the generation writes one of its transient events
\* (tools.service.ts:89-130, 163-188, 269-273)
ToolWrite(p, e) ==
  /\ proc[p].pc = "stream"
  /\ ~proc[p].ended
  /\ Len(SelectSeq(proc[p].events, LAMBDA x : x \in TransientEvents)) < MaxSide
  /\ proc' = [proc EXCEPT ![p] = Write(p, e)]
  /\ UNCHANGED <<adapter, tool, streamContext, now, chats, msgs, streams, channel, nreq, resume>>

\* ---------------------------------------------------------------------------
\* getResumableStream (chat.service.ts:509-692)
\* ---------------------------------------------------------------------------
FailPoints == {"none", "getChatById", "getStreamIdsByChatId", "resumableStream",
               "getMessagesByChatId"}

\* the response of the getResumableStream call being served
NoResume == [kind |-> "none", error |-> "-", feed |-> "-", producer |-> "-",
             events |-> <<>>, claims |-> 0]

Result(kind, error, feed, producer, events, claims) ==
  [kind |-> kind, error |-> error, feed |-> feed, producer |-> producer,
   events |-> events, claims |-> claims]

Throw(error) == Result("throw", error, "-", "-", <<>>, 0)

ResumptionDisabled_unchecked == FALSE

\* line 510
ResumptionDisabled == streamContext = "null"

ReadForbidden_ownerOnly(chat, userId) == chat.userId # userId

\* lines 472 and 522
ReadForbidden(chat, userId) == chat.visibility = "private" /\ chat.userId # userId

StreamNotFoundError_asChat == "not_found:chat"

\* lines 532-546
StreamNotFoundError == "not_found:stream"

CatchResumeFailure_rethrow == Result("throw", "db_error", "-", "-", <<>>, 0)

\* catch block, lines 687-691
CatchResumeFailure == Result("null", "-", "-", "-", <<>>, 0)

\* date-fns differenceInSeconds: whole seconds, truncated towards zero
differenceInSeconds(later, earlier) ==
  LET d == later - earlier IN
  IF d >= 0 THEN d \div TicksPerSecond ELSE -((-d) \div TicksPerSecond)

NothingToResume_anyRole(messages) == messages = <<>>

\* line 592
NothingToResume(messages) ==
  messages = <<>> \/ LastOf(messages).role # "assistant"

\* line 624
IsStale(resumeRequestedAt, messageCreatedAt) ==
  differenceInSeconds(resumeRequestedAt, messageCreatedAt) > StaleSeconds

\* an observable over emptyDataStream: no event, then complete
EmptyFeed == Result("feed", "-", "empty", "-", <<>>, 0)

\* lines 588-686: the feed is concluded, look at the transcript
RestoreFromDatabase(chatId, resumeRequestedAt, fail) ==
  IF fail = "getMessagesByChatId" THEN CatchResumeFailure
  ELSE LET messages == getMessagesByChatId(chatId) IN
       IF NothingToResume(messages) THEN EmptyFeed
       ELSE IF IsStale(resumeRequestedAt, LastOf(messages).createdAt) THEN EmptyFeed
       ELSE Result("feed", "-", "restored", "-", <<LastOf(messages).id>>, 0)

\* lines 553-586: streamContext.resumableStream(recentStreamId, makeStream)
\* attaches to the channel of that id when one is live, returns null when it is
\* done, and otherwise creates the channel from makeStream(), here the empty
\* stream, which the caller then owns and which ends at once
Attach(chatId, recentStreamId, resumeRequestedAt, fail) ==
  IF fail = "resumableStream" THEN CatchResumeFailure
  ELSE IF channel[recentStreamId].state = "live"
       THEN Result("feed", "-", "attached", channel[recentStreamId].writer, <<>>, 0)
  ELSE IF channel[recentStreamId].state = "none"
       THEN Result("feed", "-", "created", "getResumableStream", <<>>, recentStreamId)
  ELSE RestoreFromDatabase(chatId, resumeRequestedAt, fail)

ResumeOutcome(chatId, userId, fail) ==
  IF ResumptionDisabled THEN Result("null", "-", "-", "-", <<>>, 0)
  ELSE IF fail = "getChatById" THEN Throw("db_error")
  ELSE IF chats[chatId] = NoChat THEN Throw("not_found:chat")
  ELSE IF ReadForbidden(chats[chatId], userId) THEN Throw("forbidden:chat")
  ELSE IF fail = "getStreamIdsByChatId" THEN Throw("db_error")
  ELSE LET streamIds == getStreamIdsByChatId(chatId) IN
       IF Len(streamIds) = 0 THEN Throw(StreamNotFoundError)
       ELSE Attach(chatId, LastOf(streamIds).streamId, now, fail)

GetResumableStream(chatId, userId, fail) ==
  LET out == ResumeOutcome(chatId, userId, fail) IN
  /\ resume' = out
  /\ channel' = IF out.claims # 0
                THEN [channel EXCEPT ![out.claims] =
                        [state |-> "done", writer |-> "getResumableStream"]]
                ELSE channel
  /\ UNCHANGED <<adapter, tool, streamContext, now, chats, msgs, streams, proc, nreq>>

\* the controller hands the response to the caller (getStream)
ReturnResume ==
  /\ resume.kind # "none"
  /\ resume' = NoResume
  /\ UNCHANGED <<adapter, tool, streamContext, now, chats, msgs, streams, channel, proc, nreq>>

\* getChatWithMessages (lines 462-486): the chat and its transcript, or the
\* error thrown
ChatWithMessagesOutcome(chatId, userId) ==
  IF chats[chatId] = NoChat THEN Throw("not_found:chat")
  ELSE IF ReadForbidden(chats[chatId], userId) THEN Throw("forbidden:chat")
  ELSE Result("chat", "-", "-", chats[chatId].userId,
              [i \in DOMAIN getMessagesByChatId(chatId) |->
                 getMessagesByChatId(chatId)[i].id], 0)

GetChatWithMessages(chatId, userId) ==
  /\ resume' = ChatWithMessagesOutcome(chatId, userId)
  /\ UNCHANGED <<adapter, tool, streamContext, now, chats, msgs, streams, channel, proc, nreq>>

\* no streamText call configured and no tool invoked
NoTool == [op |-> "none"]

Store0 ==
  /\ tool = NoTool
  /\ now = 0
  /\ chats = [c \in ChatIds |-> NoChat]
  /\ msgs = <<>>
  /\ streams = <<>>
  /\ channel = [s \in 1..(MaxRequests + 1) |-> [state |-> "none", writer |-> "none"]]
  /\ proc = [p \in Procs |-> IdleProc]
  /\ nreq = 0
  /\ resume = NoResume

\* ---------------------------------------------------------------------------
\* The transport adapter of createChatStream (chat.service.ts:343-456)
\* ---------------------------------------------------------------------------
\* Text is a sequence of one-character strings. A JSON payload is written
\* "{k}", k naming the event: "a" a text delta, "f" a finish event with a
\* scalar finishReason, "F" a finish event with finishReason {unified: ...}.
\* "-" stands for a frame without content.
EventKinds == {"a", "f", "F"}
FrameKinds == EventKinds \cup {"-"}

Whitespace == {" ", "\n"}

\* JSON.stringify of an event
JsonStringify(k) == <<"{", k, "}">>

\* JSON.parse: the event the text denotes, "invalid" when it throws
JsonParse(text) ==
  IF Len(text) = 3 /\ text[1] = "{" /\ text[3] = "}" /\ text[2] \in EventKinds
  THEN text[2] ELSE "invalid"

DataPrefix == <<"d", "a", "t", "a", ":", " ">>

FrameDelimiter == <<"\n", "\n">>

\* JsonToSseTransformStream: `data: ${JSON.stringify(part)}\n\n`
FrameText(k) == IF k = "-" THEN <<>> ELSE DataPrefix \o JsonStringify(k)

\* the framed text of a sequence of frames; when open, the last frame has not
\* got its delimiter
RECURSIVE Wire(_, _)
Wire(frames, open) ==
  IF frames = <<>> THEN <<>>
  ELSE IF Len(frames) = 1 /\ open THEN FrameText(frames[1])
  ELSE FrameText(Head(frames)) \o FrameDelimiter \o Wire(Tail(frames), open)

\* String.prototype.substring(from) and substring(0, to), 0-based
SubstringFrom(text, from) == SubSeq(text, from + 1, Len(text))
SubstringTo(text, to) == SubSeq(text, 1, to)

\* String.prototype.indexOf, 0-based, -1 when absent
IndexOf(text, pattern) ==
  LET hits == {i \in 0..(Len(text) - Len(pattern)) :
                 SubSeq(text, i + 1, i + Len(pattern)) = pattern}
  IN IF hits = {} THEN -1 ELSE CHOOSE i \in hits : \A j \in hits : i <= j

StartsWith(text, prefix) ==
  Len(text) >= Len(prefix) /\ SubSeq(text, 1, Len(prefix)) = prefix

\* String.prototype.trim
RECURSIVE Trim(_)
Trim(text) ==
  IF text = <<>> THEN text
  ELSE IF Head(text) \in Whitespace THEN Trim(Tail(text))
  ELSE IF text[Len(text)] \in Whitespace THEN Trim(SubSeq(text, 1, Len(text) - 1))
  ELSE text

\* Parsed JSON values, tagged with their typeof; an object keeps its entries in
\* the order of the text, which is the order of Object.values
Undefined == [t |-> "undefined"]
Null == [t |-> "null"]
Str(s) == [t |-> "string", s |-> s]
Num(n) == [t |-> "number", n |-> n]
Obj(entries) == [t |-> "object", e |-> entries]

\* JavaScript truthiness, as tested by `parsed.finishReason` and
\* `parsed.finishReason.unified` (lines 436, 439)
Truthy(v) ==
  CASE v.t = "string" -> v.s # ""
    [] v.t = "number" -> v.n # 0
    [] v.t = "object" -> TRUE
    [] OTHER -> FALSE

\* property access on an object: undefined when the key is absent
Get(obj, key) ==
  LET hits == SelectSeq(obj.e, LAMBDA en : en.k = key) IN
  IF hits = <<>> THEN Undefined ELSE hits[1].v

NormalizeFinishReason_anyType(parsed) ==
  LET fr == parsed.finishReason IN
  IF Truthy(fr) /\ fr.t = "object"
  THEN IF Truthy(Get(fr, "unified"))
       THEN [parsed EXCEPT !.finishReason = Get(fr, "unified")]
       ELSE IF Len(fr.e) > 0 /\ fr.e[1].v.t = "string"
            THEN [parsed EXCEPT !.finishReason = fr.e[1].v]
            ELSE parsed
  ELSE parsed

\* lines 435-448: the finishReason of a finish event, when it is an object,
\* becomes its `unified` value, or else its first value when that is a string
NormalizeFinishReason(parsed) ==
  LET fr == parsed.finishReason IN
  IF parsed.type = "finish" /\ Truthy(fr) /\ fr.t = "object"
  THEN IF Truthy(Get(fr, "unified"))
       THEN [parsed EXCEPT !.finishReason = Get(fr, "unified")]
       ELSE IF Len(fr.e) > 0 /\ fr.e[1].v.t = "string"
            THEN [parsed EXCEPT !.finishReason = fr.e[1].v]
            ELSE parsed
  ELSE parsed

\* JSON.stringify of a parsed value, as a sequence of tokens; a string is
\* written as a quote mark and its content
ScalarText(v) ==
  CASE v.t = "string" -> <<"q", v.s>>
    [] v.t = "number" -> <<"1">>
    [] v.t = "null" -> <<"null">>

RECURSIVE EntriesText(_)
EntriesText(entries) ==
  IF entries = <<>> THEN <<>>
  ELSE (IF Len(entries) > 1 THEN <<",">> ELSE <<>>)
       \o EntriesText(SubSeq(entries, 1, Len(entries) - 1))
       \o <<"q", entries[Len(entries)].k, ":">> \o ScalarText(entries[Len(entries)].v)

ValueText(v) ==
  IF v.t = "object" THEN <<"{">> \o EntriesText(v.e) \o <<"}">> ELSE ScalarText(v)

\* JSON.stringify of an event: a property whose value is undefined is left out
StringifyEvent(event) ==
  <<"{", "q", "type", ":", "q", event.type>>
  \o (IF event.finishReason = Undefined THEN <<>>
      ELSE <<",", "q", "finishReason", ":">> \o ValueText(event.finishReason))
  \o <<"}">>

\* the values a finishReason takes in the payloads considered
ScalarValues == {Null, Str(""), Str("stop"), Str("length"), Num(1)}
ReasonKeys == {"unified", "raw", "other"}

EntrySeqs(n) ==
  {es \in [1..n -> [k : ReasonKeys, v : ScalarValues]] :
     \A i, j \in 1..n : i # j => es[i].k # es[j].k}

FinishReasons ==
  {Undefined} \cup ScalarValues
  \cup {Obj(es) : es \in UNION {EntrySeqs(n) : n \in 0..MaxKeys}}

EventTypes == {"text-delta", "finish-step", "finish"}

ParsedEvents == [type : EventTypes, finishReason : FinishReasons]

\* JSON.parse of a payload: the event whose text it is, none when it throws
ParseEvent(text) ==
  LET hits == {event \in ParsedEvents : StringifyEvent(event) = text} IN
  IF hits = {} THEN [ok |-> FALSE]
  ELSE [ok |-> TRUE, value |-> CHOOSE event \in hits : TRUE]

\* lines 433-455 on a payload: parse, normalise, stringify; <<>> stands for null
TransformPayload(jsonData) ==
  LET parsed == ParseEvent(jsonData) IN
  IF parsed.ok THEN StringifyEvent(NormalizeFinishReason(parsed.value)) ELSE <<>>

\* the events the payload letters stand for
EventOf(k) ==
  CASE k = "a" -> [type |-> "text-delta", finishReason |-> Undefined]
    [] k = "f" -> [type |-> "finish", finishReason |-> Str("stop")]
    [] k = "F" -> [type |-> "finish",
                   finishReason |-> Obj(<<[k |-> "unified", v |-> Str("stop")]>>)]

\* lines 434-449 on a payload letter
TransformFinishReason(k) ==
  CHOOSE j \in EventKinds : EventOf(j) = NormalizeFinishReason(EventOf(k))

extractAndTransformJson_unparsed(sseMessage) ==
  LET trimmed == Trim(sseMessage) IN
  IF StartsWith(trimmed, DataPrefix)
  THEN SubstringFrom(trimmed, Len(DataPrefix)) ELSE trimmed

\* extractAndTransformJson (lines 426-456); <<>> stands for null
extractAndTransformJson(sseMessage) ==
  LET trimmed == Trim(sseMessage)
      jsonData == IF StartsWith(trimmed, DataPrefix)
                  THEN SubstringFrom(trimmed, Len(DataPrefix)) ELSE trimmed
      parsed == JsonParse(jsonData)
  IN IF parsed = "invalid" THEN <<>>
     ELSE JsonStringify(TransformFinishReason(parsed))

\* lines 358-363 and 384-389: subscriber.next for a message with content and
\* a payload that parses
Emit(message, out) ==
  IF Trim(message) = <<>> THEN out
  ELSE LET jsonData == extractAndTransformJson(Trim(message)) IN
       IF jsonData = <<>> THEN out ELSE Append(out, jsonData)

\* the inner loop of the pump (lines 373-392)
RECURSIVE Drain(_, _)
Drain(buffer, out) ==
  LET messageEndIndex == IndexOf(buffer, FrameDelimiter) IN
  IF messageEndIndex = -1 THEN [buffer |-> buffer, out |-> out]
  ELSE Drain(SubstringFrom(buffer, messageEndIndex + 2),
             Emit(SubstringTo(buffer, messageEndIndex), out))

Flush_dropped(buffer, out) == out

\* the done branch of the pump (lines 356-363)
Flush(buffer, out) == Emit(buffer, out)

NoAdapter == [frames |-> <<>>, open |-> FALSE, rest |-> <<>>, buffer |-> <<>>,
              out |-> <<>>, done |-> FALSE]

\* reader.read() returns the next transport chunk, of any length (lines 354,
\* 368-392)
PumpChunk(n) ==
  /\ ~adapter.done
  /\ n \in 1..Len(adapter.rest)
  /\ LET chunk == SubstringTo(adapter.rest, n)
         drained == Drain(adapter.buffer \o chunk, adapter.out)
     IN adapter' = [adapter EXCEPT !.rest = SubstringFrom(adapter.rest, n),
                                   !.buffer = drained.buffer,
                                   !.out = drained.out]
  /\ UNCHANGED <<tool, streamContext, now, chats, msgs, streams, channel, proc, nreq, resume>>

\* reader.read() returns done (lines 355-367): flush, then subscriber.complete()
PumpDone ==
  /\ ~adapter.done
  /\ adapter.rest = <<>>
  /\ adapter' = [adapter EXCEPT !.out = Flush(adapter.buffer, adapter.out),
                                !.buffer = <<>>,
                                !.done = TRUE]
  /\ UNCHANGED <<tool, streamContext, now, chats, msgs, streams, channel, proc, nreq, resume>>

\* one call of extractAndTransformJson on the payload of an event
NoCall == [event |-> [type |-> "-", finishReason |-> Undefined], payload |-> <<>>,
           emitted |-> <<>>, done |-> FALSE]

ExtractAndTransform ==
  /\ ~adapter.done
  /\ adapter' = [adapter EXCEPT !.emitted = TransformPayload(adapter.payload),
                                !.done = TRUE]
  /\ UNCHANGED <<tool, streamContext, now, chats, msgs, streams, channel, proc, nreq, resume>>

PayloadInit ==
  /\ streamContext = "ctx"
  /\ Store0
  /\ \E event \in ParsedEvents :
       adapter = [NoCall EXCEPT !.event = event, !.payload = StringifyEvent(event)]

PayloadNext == ExtractAndTransform

PayloadSpec == PayloadInit /\ [][PayloadNext]_vars

FrameSeqs == UNION {[1..n -> FrameKinds] : n \in 0..MaxFrames}

AdapterInit ==
  /\ streamContext = "ctx"
  /\ Store0
  /\ \E frames \in FrameSeqs, open \in BOOLEAN :
       adapter = [NoAdapter EXCEPT !.frames = frames, !.open = open,
                                   !.rest = Wire(frames, open)]

AdapterNext ==
  \/ \E n \in 1..Len(adapter.rest) : PumpChunk(n)
  \/ PumpDone

AdapterSpec == AdapterInit /\ [][AdapterNext]_vars

\* ---------------------------------------------------------------------------
\* The observable as its consumer sees it (chat.service.ts:343-423, 458-459)
\* ---------------------------------------------------------------------------
\* `rest` counts the chunks the stream still has, one event each; `settled` is
\* the outcome of the pending reader.read() whose continuation has not run
\* yet; `calls` are the calls the pump made on the subscriber, `queue` the
\* notifications observeOn(asyncScheduler) has scheduled, `delivered` what
\* the consumer received. A subscriber that got a terminal call or was
\* unsubscribed is closed and ignores every later call; unsubscribing cancels
\* what is scheduled.
NoObserver == [rest |-> 0, pc |-> "read", settled |-> "none", isCompleted |-> FALSE,
               locked |-> TRUE, closed |-> FALSE, unsubscribed |-> FALSE,
               calls |-> <<>>, queue |-> <<>>, delivered |-> <<>>, atUnsubscribe |-> 0]

Terminals == {"complete", "error"}

\* subscriber.next / complete / error
Call(o, signal) ==
  [o EXCEPT !.calls = Append(@, signal),
            !.queue = IF o.closed THEN @ ELSE Append(@, signal),
            !.closed = @ \/ signal \in Terminals]

\* reader.read() settles (line 354): with a chunk, with done, or by rejecting,
\* which is all it can do once the lock is released
ReadSettles(kind) ==
  /\ adapter.pc = "read"
  /\ adapter.settled = "none"
  /\ kind = "value" => adapter.locked /\ adapter.rest > 0
  /\ kind = "done" => adapter.locked /\ adapter.rest = 0
  /\ adapter' = [adapter EXCEPT !.settled = kind,
                                !.rest = IF kind = "value" THEN @ - 1 ELSE @]
  /\ UNCHANGED <<tool, streamContext, now, chats, msgs, streams, channel, proc, nreq, resume>>

PumpContinues_noBreak ==
  /\ adapter.pc = "read"
  /\ adapter.settled # "none"
  /\ adapter' =
       IF adapter.settled = "value"
       THEN [Call(adapter, "next") EXCEPT !.settled = "none"]
       ELSE IF adapter.settled = "done"
       THEN [Call(adapter, "complete") EXCEPT !.settled = "none",
                                             !.isCompleted = TRUE, !.locked = FALSE]
       ELSE [Call(adapter, "error") EXCEPT !.settled = "none", !.pc = "ended",
                                          !.isCompleted = TRUE, !.locked = FALSE]
  /\ UNCHANGED <<tool, streamContext, now, chats, msgs, streams, channel, proc, nreq, resume>>

\* the pump goes on after its await (lines 355-406): an event for a chunk; at
\* done the lock is released, subscriber.complete() is called and the loop is
\* left; a rejection is caught, the lock released and subscriber.error() called
PumpContinues ==
  /\ adapter.pc = "read"
  /\ adapter.settled # "none"
  /\ adapter' =
       IF adapter.settled = "value"
       THEN [Call(adapter, "next") EXCEPT !.settled = "none"]
       ELSE IF adapter.settled = "done"
       THEN [Call(adapter, "complete") EXCEPT !.settled = "none", !.pc = "ended",
                                             !.isCompleted = TRUE, !.locked = FALSE]
       ELSE [Call(adapter, "error") EXCEPT !.settled = "none", !.pc = "ended",
                                          !.isCompleted = TRUE, !.locked = FALSE]
  /\ UNCHANGED <<tool, streamContext, now, chats, msgs, streams, channel, proc, nreq, resume>>

\* the scheduler hands the next notification to the consumer (line 459)
Deliver ==
  /\ adapter.queue # <<>>
  /\ ~adapter.unsubscribed
  /\ adapter' = [adapter EXCEPT !.delivered = Append(@, Head(adapter.queue)),
                                !.queue = Tail(@)]
  /\ UNCHANGED <<tool, streamContext, now, chats, msgs, streams, channel, proc, nreq, resume>>

\* the consumer unsubscribes: the cleanup function (lines 413-422). Releasing
\* the lock under a pending read either rejects that read or throws, and the
\* throw is ignored with the lock kept (lines 416-420)
Cleanup(released) ==
  /\ ~adapter.unsubscribed
  /\ LET pending == adapter.pc = "read" /\ adapter.settled = "none"
         release == ~adapter.isCompleted /\ (released \/ ~pending)
     IN adapter' = [adapter EXCEPT
                      !.unsubscribed = TRUE, !.closed = TRUE, !.queue = <<>>,
                      !.atUnsubscribe = Len(adapter.delivered),
                      !.isCompleted = TRUE,
                      !.locked = IF release THEN FALSE ELSE @,
                      !.settled = IF release /\ pending THEN "rejected" ELSE @]
  /\ UNCHANGED <<tool, streamContext, now, chats, msgs, streams, channel, proc, nreq, resume>>

ObserveInit ==
  /\ streamContext = "ctx"
  /\ Store0
  /\ \E n \in 0..MaxFrames : adapter = [NoObserver EXCEPT !.rest = n]

ObserveNext ==
  \/ \E kind \in {"value", "done", "rejected"} : ReadSettles(kind)
  \/ PumpContinues
  \/ Deliver
  \/ \E released \in BOOLEAN : Cleanup(released)

ObserveSpec == ObserveInit /\ [][ObserveNext]_vars

\* frames on the wire, a frame whose payload is not JSON ("x") among them
WireKinds == FrameKinds \cup {"x"}

WireSeqs == UNION {[1..n -> WireKinds] : n \in 0..MaxFrames}

CorruptInit ==
  /\ streamContext = "ctx"
  /\ Store0
  /\ \E frames \in WireSeqs, open \in BOOLEAN :
       adapter = [NoAdapter EXCEPT !.frames = frames, !.open = open,
                                   !.rest = Wire(frames, open)]

CorruptSpec == CorruptInit /\ [][AdapterNext]_vars

\* ---------------------------------------------------------------------------
\* The options of the streamText call (chat.service.ts:200-232)
\* ---------------------------------------------------------------------------
\* a model id is a text made of these fragments
Fragments == {"chat", "-", "reason", "think", "ing"}

ModelIds == UNION {[1..n -> Fragments] : n \in 0..MaxIdLen}

\* String.prototype.includes
Includes(text, pattern) == IndexOf(text, pattern) # -1

isReasoningModel_reasoningOnly(selectedChatModel) ==
  Includes(selectedChatModel, <<"reason", "ing">>)

\* lines 200-202
isReasoningModel(selectedChatModel) ==
  \/ Includes(selectedChatModel, <<"reason", "ing">>)
  \/ Includes(selectedChatModel, <<"think", "ing">>)

\* the keys of the tools object (lines 233-241)
AllTools == <<"getWeather", "createDocument", "updateDocument", "requestSuggestions">>

\* experimental_activeTools (lines 215-222)
ActiveTools(selectedChatModel) ==
  IF isReasoningModel(selectedChatModel) THEN <<>> ELSE AllTools

\* experimental_transform (lines 223-225)
Transform(selectedChatModel) ==
  IF isReasoningModel(selectedChatModel) THEN "undefined" ELSE "smoothStream:word"

StreamTextOptions(selectedChatModel) ==
  /\ tool = NoTool
  /\ tool' = [op |-> "streamText", selectedChatModel |-> selectedChatModel,
              activeTools |-> ActiveTools(selectedChatModel),
              transform |-> Transform(selectedChatModel)]
  /\ UNCHANGED <<adapter, streamContext, now, chats, msgs, streams, channel, proc, nreq, resume>>

\* ---------------------------------------------------------------------------
\* requestSuggestions (tools.service.ts:200-299)
\* ---------------------------------------------------------------------------
\* the only limit on the number of suggestions is the sentence "Max 5
\* suggestions." of the nested call's system prompt (line 231)
MaxSuggestions == 5

\* an element of the nested model's output array: "full" has its three
\* sentences, "blank" lacks one of them or has it empty
ElementKinds == {"full", "blank"}

Outputs == UNION {[1..n -> ElementKinds] : n \in 0..MaxElements}

\* the negation of lines 251-255
IsComplete(element) == element = "full"

\* the for loop of lines 249-277 from index i on; elements are named by their
\* 0-based index in the output array
RECURSIVE ProcessPartialOutput(_, _, _)
ProcessPartialOutput(partialOutput, i, st) ==
  IF i >= Len(partialOutput) THEN st
  ELSE IF ~IsComplete(partialOutput[i + 1])
       THEN ProcessPartialOutput(partialOutput, i + 1, st)
       ELSE ProcessPartialOutput(partialOutput, i + 1,
              [st EXCEPT !.written = Append(@, i),
                         !.suggestions = Append(@, i),
                         !.processedCount = @ + 1])

\* what getDocumentById gives: no document, a document without content, or a
\* document with content (lines 215-221)
DocumentStates == {"missing", "empty", "present"}

\* execute is entered (lines 214-247): the document is looked up, and the
\* nested streamText call will deliver the output array element by element
RequestSuggestions(document, hasSession, output) ==
  /\ tool = NoTool
  /\ tool' = IF document \in {"missing", "empty"}
             THEN [op |-> "requestSuggestions", document |-> document,
                   output |-> <<>>, seen |-> 0,
                   processedCount |-> 0, suggestions |-> <<>>, written |-> <<>>,
                   saved |-> <<>>, hasSession |-> hasSession,
                   result |-> "Document not found"]
             ELSE [op |-> "requestSuggestions", document |-> document,
                   output |-> output, seen |-> 0,
                   processedCount |-> 0, suggestions |-> <<>>, written |-> <<>>,
                   saved |-> <<>>, hasSession |-> hasSession, result |-> "-"]
  /\ UNCHANGED <<adapter, streamContext, now, chats, msgs, streams, channel, proc, nreq, resume>>

\* one turn of the for-await loop (lines 245-278): the next partial output is
\* the output array up to one more element
PartialOutput ==
  /\ tool.op = "requestSuggestions"
  /\ tool.result = "-"
  /\ tool.seen < Len(tool.output)
  /\ LET partialOutput == SubSeq(tool.output, 1, tool.seen + 1) IN
     tool' = [ProcessPartialOutput(partialOutput, tool.processedCount, tool)
                EXCEPT !.seen = @ + 1]
  /\ UNCHANGED <<adapter, streamContext, now, chats, msgs, streams, channel, proc, nreq, resume>>

\* the end of the nested stream (lines 280-296): saveSuggestions, then the result
SaveSuggestions ==
  /\ tool.op = "requestSuggestions"
  /\ tool.result = "-"
  /\ tool.seen = Len(tool.output)
  /\ tool' = [tool EXCEPT !.saved = IF tool.hasSession THEN tool.suggestions ELSE <<>>,
                          !.result = "Suggestions have been added to the document"]
  /\ UNCHANGED <<adapter, streamContext, now, chats, msgs, streams, channel, proc, nreq, resume>>

\* ---------------------------------------------------------------------------
\* Tool calls and their approval (tools.service.ts:24-37, chat.service.ts:204-241)
\* ---------------------------------------------------------------------------
\* stopWhen: stepCountIs(5) (chat.service.ts:214)
StepLimit == 5

NeedsApproval_none(name) == FALSE

\* needsApproval: true (tools.service.ts:36); the other three tools do not set it
NeedsApproval(name) == name = "getWeather"

\* a tool call is <<tool, turn in which the model requested it>>
NoTurn == [op |-> "turn", n |-> 0, hasMessages |-> FALSE, pending |-> {},
           approved |-> {}, asked |-> {}, ran |-> {}, steps |-> 0]

\* a createChatStream request reaches streamText (lines 204-213): with
\* dto.messages the client sends back the transcript, in which it may have
\* approved calls that were surfaced to it in earlier turns
BeginTurn(hasMessages, approvals) ==
  /\ tool = NoTool \/ (tool.op = "turn" /\ tool.n < MaxTurns)
  /\ LET last == IF tool = NoTool THEN NoTurn ELSE tool
         open == last.pending \cup last.asked
     IN /\ approvals \subseteq open
        /\ ~hasMessages => approvals = {}
        /\ tool' = [NoTurn EXCEPT !.n = last.n + 1, !.hasMessages = hasMessages,
                                  !.pending = open \ approvals,
                                  !.approved = approvals]
  /\ UNCHANGED <<adapter, streamContext, now, chats, msgs, streams, channel, proc, nreq, resume>>

\* streamText runs the calls approved in its messages before the first step
ExecuteApproved(call) ==
  /\ tool.op = "turn"
  /\ tool.steps = 0
  /\ call \in tool.approved \ tool.ran
  /\ tool' = [tool EXCEPT !.ran = @ \cup {call}]
  /\ UNCHANGED <<adapter, streamContext, now, chats, msgs, streams, channel, proc, nreq, resume>>

\* a step of the model calls a tool: a tool that needs approval is not run,
\* its call is surfaced as an approval request and the steps end; any other
\* tool is run at once
ModelCallsTool(name) ==
  /\ tool.op = "turn"
  /\ tool.n > 0
  /\ tool.approved \subseteq tool.ran
  /\ tool.asked = {}
  /\ tool.steps < StepLimit
  /\ tool' = IF NeedsApproval(name)
             THEN [tool EXCEPT !.steps = @ + 1, !.asked = @ \cup {<<name, tool.n>>}]
             ELSE [tool EXCEPT !.steps = @ + 1, !.ran = @ \cup {<<name, tool.n>>}]
  /\ UNCHANGED <<adapter, streamContext, now, chats, msgs, streams, channel, proc, nreq, resume>>

\* ---------------------------------------------------------------------------
\* ChatPage (src/unnamed/part_000:18-84)
\* ---------------------------------------------------------------------------
\* what fetch gives: an HTTP status, or 0 when fetch itself rejects
Statuses == {0, 200, 401, 403, 404, 500}

\* data.chat?.visibility of the response body
BodyVisibilities == {"public", "private", "undefined"}

\* redirect() of next/navigation does not return: it throws the framework's
\* redirect error, which is how the redirect reaches the framework
Redirect(url) == [thrown |-> "NEXT_REDIRECT", url |-> url]

Completed(initialMessages, initialVisibilityType) ==
  [thrown |-> "none", initialMessages |-> initialMessages,
   initialVisibilityType |-> initialVisibilityType]

\* the try block (lines 28-61); the initial values are those of lines 25-26
TryFetchChat(status, messages, visibility) ==
  IF status = 0 THEN [thrown |-> "TypeError", url |-> "-"]
  ELSE IF status = 200
       THEN Completed(messages, IF visibility = "undefined" THEN "private" ELSE visibility)
  ELSE IF status = 404 THEN Redirect("/")
  ELSE Completed(0, "private")

\* the catch block (lines 62-65) logs whatever was thrown and goes on with
\* the values assigned so far; lines 71-83 then render the Chat component
\* the cookies of lines 21-23: the auth token is sent as a bearer header when
\* present (lines 36-38), the chat-model cookie names the initial model (line 76)
Cookies == [authToken : BOOLEAN, chatModel : {"undefined", "chat-model-reasoning"}]

ChatPage(cookieStore, status, messages, visibility) ==
  /\ tool = NoTool
  /\ LET body == TryFetchChat(status, messages, visibility)
         after == IF body.thrown = "none" THEN body ELSE Completed(0, "private")
     IN tool' = [op |-> "ChatPage", status |-> status, messages |-> messages,
                 visibility |-> visibility, rendered |-> "Chat",
                 authorization |-> cookieStore.authToken,
                 initialChatModel |-> IF cookieStore.chatModel = "undefined"
                                      THEN "DEFAULT_CHAT_MODEL"
                                      ELSE cookieStore.chatModel,
                 initialMessages |-> after.initialMessages,
                 initialVisibilityType |-> after.initialVisibilityType]
  /\ UNCHANGED <<adapter, streamContext, now, chats, msgs, streams, channel, proc, nreq, resume>>

\* ---------------------------------------------------------------------------
\* The mutating operations (chat.service.ts:488-507, 694-748); `tool` records
\* the call and what it returned or threw
\* ---------------------------------------------------------------------------
MutateForbidden_unlessPublic(chat, userId) ==
  chat.visibility = "private" /\ chat.userId # userId

\* lines 498-503, 713-718, 741-746
MutateForbidden(chat, userId) == chat.userId # userId

\* lines 489-503 and 732-746
OwnerCheck(chatId, userId) ==
  IF chats[chatId] = NoChat THEN "not_found:chat"
  ELSE IF MutateForbidden(chats[chatId], userId) THEN "forbidden:chat"
  ELSE "ok"

\* deleteChatById: the chat goes with its messages and its stream records
DeleteChat(id, userId) ==
  /\ LET outcome == OwnerCheck(id, userId) IN
     /\ tool' = [op |-> "deleteChat", chatId |-> id, userId |-> userId,
                 outcome |-> outcome]
     /\ IF outcome = "ok"
        THEN /\ chats' = [chats EXCEPT ![id] = NoChat]
             /\ msgs' = SelectSeq(msgs, LAMBDA r : r.chatId # id)
             /\ streams' = SelectSeq(streams, LAMBDA r : r.chatId # id)
        ELSE UNCHANGED <<chats, msgs, streams>>
  /\ UNCHANGED <<adapter, streamContext, now, channel, proc, nreq, resume>>

UpdateChatVisibility(chatId, visibility, userId) ==
  /\ LET outcome == OwnerCheck(chatId, userId) IN
     /\ tool' = [op |-> "updateChatVisibility", chatId |-> chatId, userId |-> userId,
                 outcome |-> outcome]
     /\ IF outcome = "ok"
        THEN chats' = [chats EXCEPT ![chatId].visibility = visibility]
        ELSE UNCHANGED chats
  /\ UNCHANGED <<adapter, streamContext, now, msgs, streams, channel, proc, nreq, resume>>

getMessageById(id) == SelectSeq(msgs, LAMBDA r : r.id = id)

\* deleteMessagesByChatIdAfterTimestamp: the messages of the chat created at
\* the timestamp or later
deleteMessagesByChatIdAfterTimestamp(rows, chatId, timestamp) ==
  SelectSeq(rows, LAMBDA r : ~(r.chatId = chatId /\ r.createdAt >= timestamp))

\* lines 694-724
DeleteTrailingMessages(messageId, userId) ==
  /\ LET found == getMessageById(messageId)
         chatId == IF found = <<>> THEN "-" ELSE found[1].chatId
         outcome == IF found = <<>> THEN "not_found:chat" ELSE OwnerCheck(chatId, userId)
     IN /\ tool' = [op |-> "deleteTrailingMessages", chatId |-> chatId,
                    userId |-> userId, outcome |-> outcome]
        /\ IF outcome = "ok"
           THEN msgs' = deleteMessagesByChatIdAfterTimestamp(msgs, chatId,
                                                            found[1].createdAt)
           ELSE UNCHANGED msgs
  /\ UNCHANGED <<adapter, streamContext, now, chats, streams, channel, proc, nreq, resume>>

\* ---------------------------------------------------------------------------
\* ChatController.createChat (src/apps/frontend/artifacts/actions.ts:44-109)
\* ---------------------------------------------------------------------------
\* the text looked for at lines 95-97, in two fragments
GatewayMessage == <<"AI Gateway requires a valid credit card", "on file to service requests">>

MessageFragments == {"AI Gateway requires a valid credit card",
                     "on file to service requests", "fetch failed", ": "}

ErrorMessages == UNION {[1..n -> MessageFragments] : n \in 0..MaxMessageLen}

\* new HttpException(new ChatSDKError(code), status)
HttpError(code, status, message) ==
  [class |-> "HttpException", code |-> code, status |-> status, message |-> message]

\* what createChatStream can throw: its own HttpExceptions (chat.service.ts
\* 127-132, 142-147), an Error of any message, or a value that is not an Error
Throwables ==
  {HttpError("rate_limit:chat", 429, m) : m \in ErrorMessages}
    \cup {HttpError("forbidden:chat", 403, m) : m \in ErrorMessages}
    \cup {[class |-> c, code |-> "-", status |-> 0, message |-> m] :
            c \in {"Error", "string"}, m \in ErrorMessages}

MapError_wrapAll(error) ==
  IF error.class = "Error" /\ Includes(error.message, GatewayMessage)
  THEN HttpError("bad_request:activate_gateway", 400, <<>>)
  ELSE HttpError("offline:chat", 503, <<>>)

\* the catch block of lines 88-108
MapError(error) ==
  IF error.class = "HttpException" THEN error
  ELSE IF error.class = "Error" /\ Includes(error.message, GatewayMessage)
  THEN HttpError("bad_request:activate_gateway", 400, <<>>)
  ELSE HttpError("offline:chat", 503, <<>>)

NoThrow == [class |-> "none", code |-> "-", status |-> 0, message |-> <<>>]

\* createChat (lines 46-109): `service` is what createChatStream does when it
\* is called, NoThrow standing for a returned observable
CreateChat(hasUser, service) ==
  /\ tool = NoTool
  /\ tool' = [op |-> "createChat", hasUser |-> hasUser, service |-> service,
              called |-> hasUser,
              response |-> IF ~hasUser THEN HttpError("unauthorized:chat", 401, <<>>)
                           ELSE IF service = NoThrow THEN NoThrow
                           ELSE MapError(service)]
  /\ UNCHANGED <<adapter, streamContext, now, chats, msgs, streams, channel, proc, nreq, resume>>

\* ---------------------------------------------------------------------------
\* createDocument and updateDocument (tools.service.ts:75-198) with the
\* document handlers (artifacts/index.ts, artifacts/code.handler.ts)
\* ---------------------------------------------------------------------------
\* z.enum of the input schema (tools.service.ts:84)
SchemaKinds == {"text", "code", "image", "sheet"}

\* the handlers of createDocumentHandlers (artifacts/index.ts:10-14)
HandlerKinds == {"text", "code", "sheet"}

\* documentHandlers.find (tools.service.ts:114-116, 170-172)
HasHandler(kind) == kind \in HandlerKinds

Event(type, data) == [type |-> type, data |-> data]

\* the content a delta of the nested model carries; "" is an empty one
Contents == {"", "draft 1", "draft 2"}

\* the delta event of a handler (code.handler.ts:30-34)
DeltaType(kind) == "data-" \o kind \o "Delta"

\* createDocument's execute up to the call of the handler (lines 86-120)
CreateDocument(kind, hasSession) ==
  /\ tool = NoTool
  /\ LET written == <<Event("data-kind", kind), Event("data-id", "id"),
                      Event("data-title", "title"), Event("data-clear", "null")>>
     IN tool' = [op |-> "createDocument", document |-> "missing", kind |-> kind,
                 hasSession |-> hasSession, written |-> written, saved |-> <<>>,
                 draftContent |-> "", deltas |-> 0,
                 pc |-> IF HasHandler(kind) THEN "handler" ELSE "done",
                 result |-> IF HasHandler(kind) THEN "-"
                            ELSE "throw: No document handler found"]
  /\ UNCHANGED <<adapter, streamContext, now, chats, msgs, streams, channel, proc, nreq, resume>>

UpdateDocument_clearFirst(document, kind, hasSession) ==
  /\ tool = NoTool
  /\ tool' = [op |-> "updateDocument", document |-> document, kind |-> kind,
              hasSession |-> hasSession,
              written |-> <<Event("data-clear", "null")>>,
              saved |-> <<>>, draftContent |-> "", deltas |-> 0,
              pc |-> IF document # "missing" /\ HasHandler(kind)
                     THEN "handler" ELSE "done",
              result |-> IF document = "missing" THEN "Document not found"
                         ELSE IF HasHandler(kind) THEN "-"
                         ELSE "No document handler found"]
  /\ UNCHANGED <<adapter, streamContext, now, chats, msgs, streams, channel, proc, nreq, resume>>

\* updateDocument's execute up to the call of the handler (lines 154-178)
UpdateDocument(document, kind, hasSession) ==
  /\ tool = NoTool
  /\ tool' = [op |-> "updateDocument", document |-> document, kind |-> kind,
              hasSession |-> hasSession,
              written |-> IF document = "missing" THEN <<>>
                          ELSE <<Event("data-clear", "null")>>,
              saved |-> <<>>, draftContent |-> "", deltas |-> 0,
              pc |-> IF document # "missing" /\ HasHandler(kind)
                     THEN "handler" ELSE "done",
              result |-> IF document = "missing" THEN "Document not found"
                         ELSE IF HasHandler(kind) THEN "-"
                         ELSE "No document handler found"]
  /\ UNCHANGED <<adapter, streamContext, now, chats, msgs, streams, channel, proc, nreq, resume>>

\* one turn of the handler's loop over the nested stream (code.handler.ts
\* 22-39, 55-72): a delta with content is written and becomes the draft
HandlerDelta(content) ==
  /\ tool.op \in {"createDocument", "updateDocument"}
  /\ tool.pc = "handler"
  /\ tool.deltas < MaxDeltas
  /\ tool' = IF content = "" THEN [tool EXCEPT !.deltas = @ + 1]
             ELSE [tool EXCEPT !.deltas = @ + 1, !.draftContent = content,
                               !.written = Append(@, Event(DeltaType(tool.kind), content))]
  /\ UNCHANGED <<adapter, streamContext, now, chats, msgs, streams, channel, proc, nreq, resume>>

\* the handler's content generation rejects: execute rejects with it
HandlerFails ==
  /\ tool.op \in {"createDocument", "updateDocument"}
  /\ tool.pc = "handler"
  /\ tool' = [tool EXCEPT !.pc = "done", !.result = "throw: handler"]
  /\ UNCHANGED <<adapter, streamContext, now, chats, msgs, streams, channel, proc, nreq, resume>>

SaveDocument_always(fails) ==
  /\ tool.op \in {"createDocument", "updateDocument"}
  /\ tool.pc = "handler"
  /\ tool' = IF tool.hasSession /\ fails
             THEN [tool EXCEPT !.pc = "done", !.result = "throw: saveDocument"]
             ELSE [tool EXCEPT !.pc = "finish",
                     !.saved = Append(@, [kind |-> tool.kind,
                                          content |-> tool.draftContent])]
  /\ UNCHANGED <<adapter, streamContext, now, chats, msgs, streams, channel, proc, nreq, resume>>

\* the nested stream ends and the handler saves the draft when the session
\* has a user id (artifacts/index.ts:62-70, 82-90); a failing saveDocument
\* rejects the handler
SaveDocument(fails) ==
  /\ tool.op \in {"createDocument", "updateDocument"}
  /\ tool.pc = "handler"
  /\ tool' = IF ~tool.hasSession THEN [tool EXCEPT !.pc = "finish"]
             ELSE IF fails
             THEN [tool EXCEPT !.pc = "done", !.result = "throw: saveDocument"]
             ELSE [tool EXCEPT !.pc = "finish",
                     !.saved = Append(@, [kind |-> tool.kind,
                                          content |-> tool.draftContent])]
  /\ UNCHANGED <<adapter, streamContext, now, chats, msgs, streams, channel, proc, nreq, resume>>

\* the handler has returned: data-finish and the result (tools.service.ts
\* 130-137, 188-195)
FinishDocument ==
  /\ tool.op \in {"createDocument", "updateDocument"}
  /\ tool.pc = "finish"
  /\ tool' = [tool EXCEPT !.pc = "done", !.result = "ok",
                          !.written = Append(@, Event("data-finish", "null"))]
  /\ UNCHANGED <<adapter, streamContext, now, chats, msgs, streams, channel, proc, nreq, resume>>

\* initStreamContext (lines 56-72) succeeded
Init == streamContext = "ctx" /\ Store0 /\ adapter = NoAdapter

\* initStreamContext caught the failure of createResumableStreamContext
InitDisabled == streamContext = "null" /\ Store0 /\ adapter = NoAdapter

Tick(d) ==
  /\ now + d <= MaxTime
  /\ now' = now + d
  /\ UNCHANGED <<adapter, tool, streamContext, chats, msgs, streams, channel, proc, nreq, resume>>

Shapes == {<<"user", FALSE>>, <<"none", TRUE>>, <<"user", TRUE>>}

\* a resume response is handed over before the service takes its next step
Serving == resume.kind = "none"

Next ==
  \/ Serving /\ \E p \in Procs, c \in ChatIds, u \in Users, sh \in Shapes :
        Start(p, c, u, sh[1], sh[2])
  \/ Serving /\ \E p \in Procs : GetChat(p)
  \/ Serving /\ \E p \in Procs, v \in Visibilities : SaveChat(p, v)
  \/ Serving /\ \E p \in Procs : SaveUserMsg(p)
  \/ Serving /\ \E p \in Procs : CreateStreamId(p)
  \/ Serving /\ \E p \in Procs : GenEmit(p)
  \/ Serving /\ \E p \in Procs : Pump(p)
  \/ Serving /\ \E p \in Procs : Unsubscribe(p)
  \/ Serving /\ \E p \in Procs : OnFinish(p)
  \/ Serving /\ \E p \in Procs : Complete(p)
  \/ Serving /\ \E d \in TickSteps : Tick(d)
  \/ Serving /\ \E c \in ChatIds, u \in Users, f \in FailPoints :
        GetResumableStream(c, u, f)
  \/ ReturnResume

Spec == Init /\ [][Next]_vars

DisabledSpec == InitDisabled /\ [][Next]_vars

\* the read operations next to createChatStream
ReadNext ==
  \/ Serving /\ \E p \in Procs, c \in ChatIds, u \in Users, sh \in Shapes :
        Start(p, c, u, sh[1], sh[2])
  \/ Serving /\ \E p \in Procs : GetChat(p)
  \/ Serving /\ \E p \in Procs, v \in Visibilities : SaveChat(p, v)
  \/ Serving /\ \E p \in Procs : SaveUserMsg(p)
  \/ Serving /\ \E p \in Procs : CreateStreamId(p)
  \/ Serving /\ \E p \in Procs : GenEmit(p)
  \/ Serving /\ \E p \in Procs : Pump(p)
  \/ Serving /\ \E p \in Procs : OnFinish(p)
  \/ Serving /\ \E p \in Procs : Complete(p)
  \/ Serving /\ \E c \in ChatIds, u \in Users : GetChatWithMessages(c, u)
  \/ Serving /\ \E c \in ChatIds, u \in Users, f \in FailPoints :
        GetResumableStream(c, u, f)
  \/ ReturnResume

ReadSpec == Init /\ [][ReadNext]_vars

\* createChatStream alone, with the failures a generation can meet
GenNext ==
  \/ \E p \in Procs, c \in ChatIds, u \in Users, sh \in Shapes :
        Start(p, c, u, sh[1], sh[2])
  \/ \E p \in Procs : GetChat(p)
  \/ \E p \in Procs, v \in Visibilities : SaveChat(p, v)
  \/ \E p \in Procs : SaveUserMsg(p)
  \/ \E p \in Procs : CreateStreamId(p)
  \/ \E p \in Procs : GenEmit(p)
  \/ \E p \in Procs : ExecuteFails(p)
  \/ \E p \in Procs : StreamFails(p)
  \/ \E p \in Procs : Pump(p)
  \/ \E p \in Procs : Unsubscribe(p)
  \/ \E p \in Procs : OnFinish(p)
  \/ \E p \in Procs : Complete(p)

GenSpec == Init /\ [][GenNext]_vars

\* two createChatStream requests in flight: the controller serves each request
\* on its own asynchronous call, and every await of lines 119-185 is a point
\* where the other request can take its steps
ConcProcs == {1, 2}

ConcInit ==
  /\ streamContext = "ctx"
  /\ adapter = NoAdapter
  /\ tool = NoTool
  /\ now = 0
  /\ chats = [c \in ChatIds |-> NoChat]
  /\ msgs = <<>>
  /\ streams = <<>>
  /\ channel = [s \in 1..(MaxRequests + 1) |-> [state |-> "none", writer |-> "none"]]
  /\ proc = [p \in ConcProcs |-> IdleProc]
  /\ nreq = 0
  /\ resume = NoResume

ConcNext ==
  \/ \E p \in ConcProcs, c \in ChatIds, u \in Users : Start(p, c, u, "user", FALSE)
  \/ \E p \in ConcProcs : GetChat(p)
  \/ \E p \in ConcProcs, v \in Visibilities : SaveChat(p, v)
  \/ \E p \in ConcProcs : SaveUserMsg(p)
  \/ \E p \in ConcProcs : CreateStreamId(p)
  \/ \E p \in ConcProcs : GenEmit(p)
  \/ \E p \in ConcProcs : Pump(p)
  \/ \E p \in ConcProcs : OnFinish(p)
  \/ \E p \in ConcProcs : Complete(p)

ConcSpec == ConcInit /\ [][ConcNext]_vars

\* the options of streamText for every selected model
OptionsNext == \E m \in ModelIds : StreamTextOptions(m)

OptionsSpec == Init /\ [][OptionsNext]_vars

\* one invocation of requestSuggestions for every output of the nested call
SuggestNext ==
  \/ \E document \in DocumentStates, hasSession \in BOOLEAN, output \in Outputs :
        RequestSuggestions(document, hasSession, output)
  \/ PartialOutput
  \/ SaveSuggestions

SuggestSpec == Init /\ [][SuggestNext]_vars

\* the turns of one chat, with the tool calls of the model
ApprovalNext ==
  \/ \E hasMessages \in BOOLEAN,
        approvals \in SUBSET ({"getWeather"} \X (1..MaxTurns)) :
        BeginTurn(hasMessages, approvals)
  \/ \E call \in {"getWeather"} \X (1..MaxTurns) : ExecuteApproved(call)
  \/ \E name \in Range(AllTools) : ModelCallsTool(name)

ApprovalSpec == Init /\ [][ApprovalNext]_vars

\* the chat page for every answer of the backend
PageNext ==
  \E cookieStore \in Cookies, status \in Statuses, messages \in 0..MaxLoaded,
     visibility \in BodyVisibilities :
     ChatPage(cookieStore, status, messages, visibility)

PageSpec == Init /\ [][PageNext]_vars

\* createChatStream next to the mutating operations
MutateNext ==
  \/ \E p \in Procs, c \in ChatIds, u \in Users, sh \in Shapes :
        Start(p, c, u, sh[1], sh[2])
  \/ \E p \in Procs : GetChat(p)
  \/ \E p \in Procs, v \in Visibilities : SaveChat(p, v)
  \/ \E p \in Procs : SaveUserMsg(p)
  \/ \E p \in Procs : CreateStreamId(p)
  \/ \E p \in Procs : GenEmit(p)
  \/ \E p \in Procs : Pump(p)
  \/ \E p \in Procs : OnFinish(p)
  \/ \E p \in Procs : Complete(p)
  \/ \E c \in ChatIds, u \in Users : DeleteChat(c, u)
  \/ \E c \in ChatIds, v \in Visibilities, u \in Users : UpdateChatVisibility(c, v, u)
  \/ \E m \in 1..(2 * MaxRequests), u \in Users : DeleteTrailingMessages(m, u)

MutateSpec == Init /\ [][MutateNext]_vars

\* the controller for every outcome of the service
ControllerNext ==
  \E hasUser \in BOOLEAN, service \in Throwables \cup {NoThrow} :
     CreateChat(hasUser, service)

ControllerSpec == Init /\ [][ControllerNext]_vars

\* one invocation of a document tool
DocumentNext ==
  \/ \E kind \in SchemaKinds, hasSession \in BOOLEAN : CreateDocument(kind, hasSession)
  \/ \E document \in DocumentStates, kind \in SchemaKinds, hasSession \in BOOLEAN :
        UpdateDocument(document, kind, hasSession)
  \/ \E content \in Contents : HandlerDelta(content)
  \/ HandlerFails
  \/ \E fails \in BOOLEAN : SaveDocument(fails)
  \/ FinishDocument
  \/ \E document \in DocumentStates, hasSession \in BOOLEAN, output \in Outputs :
        RequestSuggestions(document, hasSession, output)
  \/ PartialOutput
  \/ SaveSuggestions

DocumentSpec == Init /\ [][DocumentNext]_vars

\* createChatStream with the title task and the tools' side-channel events
SideNext ==
  \/ \E p \in Procs, c \in ChatIds, u \in Users, sh \in Shapes :
        Start(p, c, u, sh[1], sh[2])
  \/ \E p \in Procs : GetChat(p)
  \/ \E p \in Procs, v \in Visibilities : SaveChat(p, v)
  \/ \E p \in Procs : SaveUserMsg(p)
  \/ \E p \in Procs : CreateStreamId(p)
  \/ \E p \in Procs : GenEmit(p)
  \/ \E p \in Procs, e \in TransientEvents : ToolWrite(p, e)
  \/ \E p \in Procs : TitleResolves(p)
  \/ \E p \in Procs : TitleFails(p)
  \/ \E p \in Procs, terminate \in BOOLEAN : TitleFailsUnhandled(p, terminate)
  \/ \E p \in Procs : Pump(p)
  \/ \E p \in Procs : OnFinish(p)
  \/ \E p \in Procs : Complete(p)

SideSpec == Init /\ [][SideNext]_vars

\* ---------------------------------------------------------------------------
\* Properties
\* ---------------------------------------------------------------------------
Accessible(c, u) == chats[c] # NoChat /\ ~ReadForbidden(chats[c], u)

HasStream(c) == getStreamIdsByChatId(c) # <<>>

RecentStreamId(c) == LastOf(getStreamIdsByChatId(c)).streamId

Running(streamId) ==
  \E p \in Procs : /\ proc[p].pc = "stream"
                   /\ proc[p].streamId = streamId
                   /\ ~proc[p].ended

LastIsAssistant(c) ==
  LET ms == getMessagesByChatId(c) IN ms # <<>> /\ LastOf(ms).role = "assistant"

LastMessage(c) == LastOf(getMessagesByChatId(c))

\* the step is a getResumableStream(c, u) call with failure point f
ResumeStep(c, u, f) == Serving /\ resume' = ResumeOutcome(c, u, f)

\* C1: a user whose 24-hour message count equals maxMessagesPerDay is rejected
\* with rate_limit by the next createChatStream call, and a user with one
\* message fewer is accepted.
C1_QuotaBoundary ==
  [][\A p \in Procs :
       proc'[p].req # proc[p].req =>
         LET u == proc'[p].user
             n == getMessageCountByUserId(u, QuotaWindowHours)
             max == maxMessagesPerDay(UserTypeOf(u))
         IN /\ n = max => proc'[p].outcome = "rate_limit:chat"
            /\ n = max - 1 => proc'[p].outcome # "rate_limit:chat"]_vars

\* C2: a resume request made while the generation registered under the chat's
\* most recent stream id is still running returns a live feed fed by that
\* generation (createChatStream writes the channel of the id it registered).
C2_LiveAttach ==
  [][\A c \in ChatIds, u \in Users :
       ( /\ ResumeStep(c, u, "none")
         /\ Accessible(c, u)
         /\ HasStream(c)
         /\ Running(RecentStreamId(c)) )
       => /\ resume'.kind = "feed"
          /\ resume'.feed = "attached"
          /\ resume'.producer = "createChatStream"]_vars

\* C3: with resumption enabled, a stream id recorded, no live feed and a last
\* message that is an assistant message at most 15 seconds old, every resume
\* request (the first one included) returns exactly one catch-up event carrying
\* that message.
C3_FreshResume ==
  [][\A c \in ChatIds, u \in Users :
       ( /\ ResumeStep(c, u, "none")
         /\ Accessible(c, u)
         /\ HasStream(c)
         /\ channel[RecentStreamId(c)].state # "live"
         /\ LastIsAssistant(c)
         /\ now - LastMessage(c).createdAt <= StaleSeconds * TicksPerSecond )
       => /\ resume'.kind = "feed"
          /\ resume'.events = <<LastMessage(c).id>>]_vars

\* C4: resuming a finished stream whose last assistant message is strictly more
\* than 15 seconds old (15.5 s for instance) always yields an empty feed, never
\* the stale message.
C4_StaleResume ==
  [][\A c \in ChatIds, u \in Users :
       ( /\ ResumeStep(c, u, "none")
         /\ Accessible(c, u)
         /\ HasStream(c)
         /\ ~Running(RecentStreamId(c))
         /\ LastIsAssistant(c)
         /\ now - LastMessage(c).createdAt > StaleSeconds * TicksPerSecond )
       => /\ resume'.kind = "feed"
          /\ resume'.events = <<>>]_vars

\* C5: when the feed of the most recent stream id has concluded and the
\* transcript is empty or ends with a non-assistant message, the resume request
\* returns a feed without events that completes at once.
C5_NothingToResume ==
  Serving =>
    \A c \in ChatIds, u \in Users :
      ( /\ Accessible(c, u)
        /\ HasStream(c)
        /\ channel[RecentStreamId(c)].state = "done"
        /\ ~LastIsAssistant(c) )
      => LET out == ResumeOutcome(c, u, "none")
         IN out.kind = "feed" /\ out.events = <<>> /\ out.feed = "empty"

C5_Witness ==
  /\ resume.kind = "feed"
  /\ resume.feed = "empty"
  /\ \E c \in ChatIds : HasStream(c) /\ ~LastIsAssistant(c)

\* C6: with resumption enabled, a resume request for an existing, accessible
\* chat without recorded stream ids fails with not_found:stream and returns no
\* feed.
C6_NoStreamIds ==
  Serving =>
    \A c \in ChatIds, u \in Users, f \in FailPoints :
      (Accessible(c, u) /\ ~HasStream(c))
      => LET out == ResumeOutcome(c, u, f)
         IN /\ out.kind = "throw"
            /\ f \notin {"getChatById", "getStreamIdsByChatId"}
                 => out.error = "not_found:stream"

C6_Witness ==
  /\ resume.kind = "throw"
  /\ resume.error = "not_found:stream"
  /\ \E c \in ChatIds : chats[c] # NoChat /\ ~HasStream(c)

\* C7: when the stream context could not be created at construction, every
\* resume request returns null and none throws, whatever the chat and the
\* user, and the context is never created later.
C7_DisabledForever ==
  /\ [](\A c \in ChatIds, u \in Users, f \in FailPoints :
          streamContext = "null" => ResumeOutcome(c, u, f).kind = "null")
  /\ [][streamContext' = streamContext]_vars

C7_Witness ==
  /\ streamContext = "null"
  /\ resume.kind = "null"
  /\ \E c \in ChatIds : chats[c] # NoChat /\ chats[c].visibility = "private"

\* C8 (as stated): a failure of the attach or of the transcript read yields
\* null, and the only errors a resume request propagates are not_found of the
\* chat and not_found of the stream.
C8_OnlyNotFound ==
  Serving =>
    \A c \in ChatIds, u \in Users,
       f \in {"none", "resumableStream", "getMessagesByChatId"} :
      LET out == ResumeOutcome(c, u, f)
      IN out.kind = "throw" => out.error \in {"not_found:chat", "not_found:stream"}

\* C8 (amended): a failure of the attach or of the transcript read yields null;
\* the errors a resume request propagates are not_found of the chat, forbidden
\* for a private chat of another user, not_found of the stream, and a failure
\* of the chat lookup or of the stream-id listing, which precede the guarded
\* section.
C8_GracefulResume ==
  Serving =>
    \A c \in ChatIds, u \in Users, f \in FailPoints :
      LET out == ResumeOutcome(c, u, f)
      IN /\ out.kind = "throw" =>
              \/ out.error \in {"not_found:chat", "forbidden:chat", "not_found:stream"}
              \/ out.error = "db_error" /\ f \in {"getChatById", "getStreamIdsByChatId"}
         /\ ( /\ f = "resumableStream"
              /\ Accessible(c, u)
              /\ HasStream(c) ) => out.kind = "null"
         /\ ( /\ f = "getMessagesByChatId"
              /\ Accessible(c, u)
              /\ HasStream(c)
              /\ channel[RecentStreamId(c)].state = "done" ) => out.kind = "null"

C8_Witness ==
  /\ streamContext = "ctx"
  /\ resume.kind = "null"
  /\ \E c \in ChatIds : HasStream(c)

\* C9: when the consumer of the outbound observable disconnects before the
\* generation finishes, the generation still reaches its end and onFinish
\* persists its assistant message: a generation that can take no further step
\* has run onFinish.
C9_PersistedAfterDisconnect ==
  \A p \in Procs :
    ( /\ proc[p].pc = "stream"
      /\ proc[p].sub = "off"
      /\ ~ENABLED (GenEmit(p) \/ Pump(p) \/ OnFinish(p)) )
    => proc[p].fin

\* C10: the only writer of the durable channel of a stream id is the
\* createChatStream invocation that allocated the id; getResumableStream only
\* reads.
C10_SingleWriter ==
  \A s \in DOMAIN channel : channel[s].writer \in {"none", "createChatStream"}

HasMessage(id) == \E i \in DOMAIN msgs : msgs[i].id = id

\* C11: in a run with a new user message, the user message is in the Store
\* before the model is invoked, and no later step (generation failure, consumer
\* disconnect, onFinish) removes or changes it.
C11_UserMessageFirst ==
  /\ [](\A p \in Procs :
          (proc[p].pc = "stream" /\ proc[p].msgRole = "user")
          => \E i \in DOMAIN msgs : /\ msgs[i].id = UserMsgId(proc[p].req)
                                    /\ msgs[i].role = "user"
                                    /\ msgs[i].chatId = proc[p].chatId)
  /\ [][\A i \in DOMAIN msgs :
          msgs[i].role = "user" => (i \in DOMAIN msgs' /\ msgs'[i] = msgs[i])]_vars

C11_Witness ==
  \E p \in Procs : /\ proc[p].pc = "stream"
                   /\ proc[p].msgRole = "user"
                   /\ proc[p].failed
                   /\ proc[p].sub = "off"
                   /\ HasMessage(UserMsgId(proc[p].req))

RecordsOf(streamId) == {i \in DOMAIN streams : streams[i].streamId = streamId}

NewUserMessageRun(p) == proc[p].msgRole = "user" /\ ~proc[p].approval

\* C13: in a run with a single new user message on a chat id that has no chat,
\* the chat is created with the requester as owner, the title "New chat" and
\* the requested visibility before the user message is persisted; the stream
\* id is registered after the user message; and when the run is read to its
\* end without a failure the outbound sequence ends with the finish event and
\* the assistant message is in the Store.
C13_NewChatScenario ==
  [][\A p \in Procs : NewUserMessageRun(p) =>
       /\ \A v \in Visibilities :
            (chats[proc[p].chatId] = NoChat /\ SaveChat(p, v)) =>
              /\ chats'[proc[p].chatId].userId = proc[p].user
              /\ chats'[proc[p].chatId].title = "New chat"
              /\ chats'[proc[p].chatId].visibility = v
              /\ ~HasMessage(UserMsgId(proc[p].req))
              /\ proc'[p].pc = "saveUserMsg"
       /\ (proc[p].pc = "saveUserMsg" /\ proc'[p].pc # "saveUserMsg") =>
              /\ chats[proc[p].chatId] # NoChat
              /\ chats[proc[p].chatId].userId = proc[p].user
              /\ msgs' = Append(msgs, LastOf(msgs'))
              /\ LastOf(msgs').id = UserMsgId(proc[p].req)
              /\ LastOf(msgs').role = "user"
              /\ streams' = streams
              /\ proc'[p].pc = "createStreamId"
       /\ (proc[p].pc = "createStreamId" /\ proc'[p].pc # "createStreamId") =>
              /\ HasMessage(UserMsgId(proc[p].req))
              /\ Len(streams') = Len(streams) + 1
              /\ proc'[p].pc = "stream"
       /\ (proc[p].pc = "stream" /\ proc'[p].pc = "done" /\ ~proc[p].failed) =>
              /\ LastOf(proc[p].events) = "finish"
              /\ proc[p].delivered = Len(proc[p].events)
              /\ \E i \in DOMAIN msgs : /\ msgs[i].id = AssistantMsgId(proc[p].req)
                                        /\ msgs[i].role = "assistant"
                                        /\ msgs[i].chatId = proc[p].chatId]_vars

C13_Witness ==
  /\ \E p \in Procs : proc[p].pc = "done" /\ proc[p].req = 1 /\ proc[p].outcome = "stream"
  /\ Len(msgs) = 2
  /\ msgs[1].role = "user" /\ msgs[2].role = "assistant"
  /\ Len(streams) = 1
  /\ \E c \in ChatIds : chats[c] # NoChat /\ chats[c].visibility = "public"

InputTranscript(p) ==
  IF proc[p].approval THEN Range(proc[p].orig)
  ELSE {msgs[i].id : i \in {j \in DOMAIN msgs : msgs[j].id <= UserMsgId(proc[p].req)}}

OpsOn(p, op, id) ==
  Cardinality({i \in DOMAIN proc[p].ops : proc[p].ops[i] = [op |-> op, id |-> id]})

\* C15: on normal completion every finished message whose id is in the input
\* transcript is updated in place, once, and not inserted; every other finished
\* message is inserted, once, and not updated; the Store then holds one row per
\* finished message.
C15_UpdateOrInsert ==
  \A p \in Procs : (proc[p].pc = "stream" /\ proc[p].fin /\ ~proc[p].failed) =>
     /\ Len(proc[p].ops) = Len(FinishedMessages(p))
     /\ \A k \in DOMAIN FinishedMessages(p) :
          LET id == FinishedMessages(p)[k] IN
          /\ id \in InputTranscript(p) =>
               OpsOn(p, "update", id) = 1 /\ OpsOn(p, "insert", id) = 0
          /\ id \notin InputTranscript(p) =>
               OpsOn(p, "insert", id) = 1 /\ OpsOn(p, "update", id) = 0
          /\ Cardinality({i \in DOMAIN msgs : msgs[i].id = id}) = 1

C15_Witness ==
  \E p \in Procs :
     /\ proc[p].pc = "stream" /\ proc[p].fin /\ ~proc[p].failed
     /\ \E i, j \in DOMAIN proc[p].ops :
          proc[p].ops[i].op = "update" /\ proc[p].ops[j].op = "insert"

\* C16: when the generation of a run failed, onFinish persists no assistant
\* message for the failed turn.
C16_NoPartialMessage ==
  \A p \in Procs : proc[p].failed => ~HasMessage(AssistantMsgId(proc[p].req))

ErrorEvents(events) == {i \in DOMAIN events : events[i] = "error"}

\* C17: the outbound stream of a generation carries at most one error event,
\* and no model or tool event follows it.
C17_OneTerminalError ==
  \A p \in Procs :
     /\ Cardinality(ErrorEvents(proc[p].events)) <= 1
     /\ \A i \in ErrorEvents(proc[p].events) : i = Len(proc[p].events)

Refusals == {"rate_limit:chat", "forbidden:chat"}

StoreUnchanged == chats' = chats /\ msgs' = msgs /\ streams' = streams

\* C18: a request rejected with rate_limit or forbidden is rejected by its first
\* step (the quota check) or by the step after it (the ownership check), and
\* neither step writes the Store nor starts a generation: no chat, message or
\* stream record is written by a rejected request.
C18_RejectBeforeEffects ==
  [][\A p \in Procs :
       /\ proc'[p].req # proc[p].req =>
            /\ StoreUnchanged
            /\ proc'[p].pc \in {"getChat", "rejected"}
            /\ proc'[p].pc = "rejected" => proc'[p].outcome = "rate_limit:chat"
       /\ (proc'[p].pc = "getChat" /\ proc[p].pc # "getChat") => proc'[p].req # proc[p].req
       /\ (proc[p].pc = "getChat" /\ proc'[p] # proc[p]) => StoreUnchanged
       /\ (proc'[p].pc = "rejected" /\ proc'[p].outcome \in Refusals /\ proc'[p] # proc[p]) =>
            /\ proc'[p].req # proc[p].req \/ proc[p].pc = "getChat"
            /\ StoreUnchanged
            /\ proc'[p].produced = 0 /\ proc'[p].events = <<>> /\ proc'[p].streamId = 0
            /\ proc[p].req = proc'[p].req => (proc[p].produced = 0 /\ proc[p].streamId = 0)]_vars

C18_Witness ==
  /\ \E p \in Procs : proc[p].pc = "rejected" /\ proc[p].outcome = "forbidden:chat"
  /\ msgs # <<>>
  /\ \A i \in DOMAIN msgs : \A p \in Procs : msgs[i].id < UserMsgId(proc[p].req)

C18_QuotaWitness ==
  /\ \E p \in Procs : proc[p].pc = "rejected" /\ proc[p].outcome = "rate_limit:chat"
  /\ \A i \in DOMAIN msgs : \A p \in Procs : msgs[i].id < UserMsgId(proc[p].req)

ReadOutcomes(c, u) == {ChatWithMessagesOutcome(c, u), ResumeOutcome(c, u, "none")}

\* C19: getChatWithMessages and getResumableStream fail with not_found for a
\* chat id that has no chat, whoever asks, and with forbidden for a private chat
\* asked for by another user than its owner; neither error is raised for a
\* public chat or for the owner of a private chat, and getChatWithMessages then
\* returns the chat.
C19_ReadAuthorization ==
  \A c \in ChatIds, u \in Users :
     /\ chats[c] = NoChat =>
          \A r \in ReadOutcomes(c, u) : r.kind = "throw" /\ r.error = "not_found:chat"
     /\ (chats[c] # NoChat /\ chats[c].visibility = "private" /\ chats[c].userId # u) =>
          \A r \in ReadOutcomes(c, u) : r.kind = "throw" /\ r.error = "forbidden:chat"
     /\ (chats[c] # NoChat /\ (chats[c].visibility = "public" \/ chats[c].userId = u)) =>
          /\ ChatWithMessagesOutcome(c, u).kind = "chat"
          /\ \A r \in ReadOutcomes(c, u) : r.error \notin {"not_found:chat", "forbidden:chat"}

C19_Witness ==
  /\ resume.kind = "chat"
  /\ resume.events # <<>>
  /\ \E c \in ChatIds : chats[c] # NoChat /\ chats[c].visibility = "private"

\* the events of the frames that have content, in order
RECURSIVE Expected(_)
Expected(frames) ==
  IF frames = <<>> THEN <<>>
  ELSE IF Head(frames) = "-" THEN Expected(Tail(frames))
  ELSE <<JsonStringify(TransformFinishReason(Head(frames)))>> \o Expected(Tail(frames))

\* C20: whatever the split of the framed text into transport chunks, the
\* observable emits the events of the frames that have content, one each and in
\* order: what it has emitted is always a prefix of them, and at completion it
\* has emitted all of them, a last frame without delimiter included.
C20_LosslessAdapter ==
  /\ Len(adapter.out) <= Len(Expected(adapter.frames))
  /\ adapter.out = SubSeq(Expected(adapter.frames), 1, Len(adapter.out))
  /\ adapter.done => adapter.out = Expected(adapter.frames)

C20_Witness ==
  /\ adapter.done
  /\ adapter.open
  /\ Len(adapter.frames) = MaxFrames
  /\ Len(adapter.out) = MaxFrames

FinishWith(reason) == [type |-> "finish", finishReason |-> reason]

\* C21: a finish event whose finishReason is an object with a non-empty string
\* under `unified` is emitted with that string as its finishReason; a finish
\* event whose finishReason is a string is emitted as it came; an event of any
\* other type is emitted as it came.
C21_FinishReasonRoundTrip ==
  adapter.done =>
    LET event == adapter.event
        fr == event.finishReason IN
    /\ (event.type = "finish" /\ fr.t = "object"
          /\ Get(fr, "unified").t = "string" /\ Get(fr, "unified").s # "")
        => adapter.emitted = StringifyEvent(FinishWith(Get(fr, "unified")))
    /\ (event.type = "finish" /\ fr.t = "string") => adapter.emitted = adapter.payload
    /\ event.type # "finish" => adapter.emitted = adapter.payload

C21_Witness ==
  /\ adapter.done
  /\ adapter.event = FinishWith(Obj(<<[k |-> "unified", v |-> Str("stop")]>>))
  /\ adapter.emitted = StringifyEvent(FinishWith(Str("stop")))

StringValues(entries) == SelectSeq(entries, LAMBDA en : en.v.t = "string")

\* C22: a finish event whose finishReason is an object without a non-empty
\* `unified` value and with at least one string among its values is emitted
\* with the first of those strings as its finishReason.
C22_FirstStringValue ==
  adapter.done =>
    LET event == adapter.event
        fr == event.finishReason IN
    (event.type = "finish" /\ fr.t = "object" /\ ~Truthy(Get(fr, "unified"))
       /\ StringValues(fr.e) # <<>>)
    => adapter.emitted = StringifyEvent(FinishWith(StringValues(fr.e)[1].v))

WellFormed(frames) == SelectSeq(frames, LAMBDA k : k # "x")

\* C23: a frame whose payload does not parse is dropped and nothing else: the
\* observable completes only at the end of the stream, and the events of the
\* well-formed frames before and after it are all emitted, in order.
C23_MalformedDropped ==
  /\ Len(adapter.out) <= Len(Expected(WellFormed(adapter.frames)))
  /\ adapter.out = SubSeq(Expected(WellFormed(adapter.frames)), 1, Len(adapter.out))
  /\ adapter.done =>
       /\ adapter.rest = <<>>
       /\ adapter.out = Expected(WellFormed(adapter.frames))

C23_Witness ==
  /\ adapter.done
  /\ Len(adapter.frames) = 3
  /\ adapter.frames[2] = "x"
  /\ adapter.frames[1] \in EventKinds /\ adapter.frames[3] \in EventKinds
  /\ Len(adapter.out) = 2

\* the generation of a request is running: streamText was started and has
\* not produced its last event
Generating(p) == proc[p].pc = "stream" /\ ~proc[p].ended

AssistantRows(rows) == SelectSeq(rows, LAMBDA r : r.role = "assistant")

\* C25: the assistant rows of the Store change only in the one step that
\* follows the last event of the generation (the stream has ended and every
\* event was pulled through); that step writes each finished message at most
\* once, and after it the generation emits nothing more.
C25_PersistAfterCompletion ==
  [][\A p \in Procs :
       /\ AssistantRows(msgs') # AssistantRows(msgs) =>
            /\ proc[p].pc = "stream" /\ proc[p].ended
            /\ proc[p].delivered = proc[p].produced
            /\ ~proc[p].fin /\ proc'[p].fin
            /\ proc'[p].events = proc[p].events
            /\ \A i, j \in DOMAIN proc'[p].ops :
                 proc'[p].ops[i].id = proc'[p].ops[j].id => i = j
       /\ (proc[p].fin /\ proc'[p].pc = "stream") =>
            /\ proc'[p].events = proc[p].events
            /\ AssistantRows(msgs') = AssistantRows(msgs)]_vars

C25_Witness ==
  \E p \in Procs :
     /\ proc[p].pc = "stream" /\ proc[p].fin
     /\ proc[p].produced = GenLen /\ proc[p].delivered = GenLen
     /\ Len(proc[p].ops) >= 2
     /\ \A i \in DOMAIN proc[p].ops : HasMessage(proc[p].ops[i].id)

\* C26: after a completed generation the parts stored for the response
\* message are the model-originated events of the generation, and nothing
\* written on the side channels is among them.
C26_PartsAreModelEvents ==
  \A p \in Procs :
    (proc[p].pc = "stream" /\ proc[p].fin /\ ~proc[p].failed) =>
       StoredParts(msgs, ResponseId(p)) = Len(ModelEvents(proc[p].events))

\* the title task of request p settles in this step
TitleSettles(p) ==
  proc[p].title = "pending" /\ proc'[p].title \in {"resolved", "failed"}

\* C30: the title task settling leaves the request where it is and the
\* messages of the Store as they are; a title that resolves is written to the
\* chat and, while the stream is open, emitted as a data-chat-title event; a
\* title that fails, or resolves after the stream closed, adds no event.
C30_TitleNeverBreaks ==
  [][\A p \in Procs : TitleSettles(p) =>
       /\ proc'[p].pc = proc[p].pc
       /\ proc'[p].ended = proc[p].ended /\ proc'[p].fin = proc[p].fin
       /\ msgs' = msgs
       /\ proc'[p].title = "resolved" =>
            /\ chats'[proc[p].chatId].title = "generated"
            /\ proc'[p].events = IF proc[p].ended THEN proc[p].events
                                 ELSE Append(proc[p].events, "data-chat-title")
       /\ proc'[p].title = "failed" =>
            /\ chats' = chats
            /\ proc'[p].events = proc[p].events]_vars

\* the id names a reasoning variant: "reasoning" or "thinking" occurs in it
ReasoningVariant(id) ==
  \E i \in 1..(Len(id) - 1) :
     id[i] \in {"reason", "think"} /\ id[i + 1] = "ing"

\* C28: a reasoning variant gets no active tool and no smoothing, every other
\* model the four tools and word smoothing; the tools are empty exactly when
\* the smoothing is off.
C28_VariantGating ==
  tool.op = "streamText" =>
     /\ ReasoningVariant(tool.selectedChatModel) =>
          tool.activeTools = <<>> /\ tool.transform = "undefined"
     /\ ~ReasoningVariant(tool.selectedChatModel) =>
          /\ Range(tool.activeTools) = {"getWeather", "createDocument",
                                        "updateDocument", "requestSuggestions"}
          /\ tool.transform = "smoothStream:word"
     /\ (tool.activeTools = <<>>) <=> (tool.transform = "undefined")

C28_Witness ==
  /\ tool.op = "streamText"
  /\ tool.selectedChatModel = <<"chat", "-", "think", "ing">>
  /\ tool.activeTools = <<>>

\* C29: an invocation of requestSuggestions writes at most 5 data-suggestion
\* events and saves at most 5 suggestions.
C29_AtMostFiveSuggestions ==
  tool.op = "requestSuggestions" =>
     /\ Len(tool.written) <= MaxSuggestions
     /\ Len(tool.saved) <= MaxSuggestions

\* C27: a call of getWeather that was executed in a turn was requested in an
\* earlier turn and is approved in the messages of this turn; only calls of
\* getWeather are ever held for approval, the calls of the other tools run in
\* the turn that requests them.
C27_ApprovalBeforeExecution ==
  tool.op = "turn" =>
     /\ \A call \in tool.ran :
          call[1] = "getWeather" =>
             /\ call[2] < tool.n
             /\ tool.hasMessages
             /\ call \in tool.approved
     /\ \A call \in tool.asked \cup tool.pending : call[1] = "getWeather"
     /\ \A call \in tool.ran : call[1] # "getWeather" => call[2] = tool.n

C27_Witness ==
  /\ tool.op = "turn"
  /\ <<"getWeather", 1>> \in tool.ran
  /\ <<"createDocument", 2>> \in tool.ran
  /\ <<"getWeather", 2>> \in tool.asked

\* C31: when the backend answers 404 the page redirects to "/" and does not
\* render the Chat component.
C31_NotFoundRedirects ==
  (tool.op = "ChatPage" /\ tool.status = 404) => tool.rendered = "redirect:/"

MutatingOps == {"deleteChat", "updateChatVisibility", "deleteTrailingMessages"}

\* C32: a mutating operation fails with not_found when its chat (or message)
\* does not exist, otherwise with forbidden when the caller does not own the
\* chat, public or not, and succeeds otherwise; a failure leaves the Store
\* as it was.
C32_OwnerOnlyMutation ==
  [][(tool' # tool /\ tool'.op \in MutatingOps) =>
       /\ tool'.outcome =
            IF tool'.chatId = "-" \/ chats[tool'.chatId] = NoChat THEN "not_found:chat"
            ELSE IF chats[tool'.chatId].userId # tool'.userId THEN "forbidden:chat"
            ELSE "ok"
       /\ tool'.outcome # "ok" =>
            chats' = chats /\ msgs' = msgs /\ streams' = streams]_vars

C32_Witness ==
  /\ tool.op = "deleteChat"
  /\ tool.outcome = "forbidden:chat"
  /\ chats[tool.chatId].visibility = "public"
  /\ getMessagesByChatId(tool.chatId) # <<>>

\* the message of the error names the gateway's billing failure
NamesGatewayFailure(message) ==
  \E i \in 1..(Len(message) - 1) :
     /\ message[i] = "AI Gateway requires a valid credit card"
     /\ message[i + 1] = "on file to service requests"

\* C33: without a user the request is refused as unauthorized and the service
\* is not called; an HttpException of the service passes unchanged; an Error
\* naming the gateway failure becomes bad_request:activate_gateway; anything
\* else thrown becomes offline:chat.
C33_ControllerErrorMapping ==
  tool.op = "createChat" =>
     /\ ~tool.hasUser =>
          tool.response.code = "unauthorized:chat" /\ ~tool.called
     /\ (tool.hasUser /\ tool.service.class = "none") => tool.response.class = "none"
     /\ (tool.hasUser /\ tool.service.class = "HttpException") =>
          tool.response = tool.service
     /\ (tool.hasUser /\ tool.service.class = "Error"
           /\ NamesGatewayFailure(tool.service.message)) =>
          tool.response.code = "bad_request:activate_gateway"
              /\ tool.response.status = 400
     /\ (tool.hasUser /\ tool.service.class \in {"Error", "string"}
           /\ ~(tool.service.class = "Error"
                 /\ NamesGatewayFailure(tool.service.message))) =>
          tool.response.code = "offline:chat" /\ tool.response.status = 503

C33_Witness ==
  /\ tool.op = "createChat"
  /\ tool.hasUser
  /\ tool.service.class = "Error"
  /\ tool.service.message = <<"fetch failed", "AI Gateway requires a valid credit card",
                              "on file to service requests">>
  /\ tool.response.code = "bad_request:activate_gateway"

\* at most one terminal signal, and nothing after it
TerminatesOnce(signals) ==
  \A i \in DOMAIN signals : signals[i] \in Terminals => i = Len(signals)

C35_ReferentialIntegrity ==
  /\ \A i \in DOMAIN streams : chats[streams[i].chatId] # NoChat
  /\ \A i \in DOMAIN msgs : chats[msgs[i].chatId] # NoChat

\* C36: requestSuggestions writes no element of the output twice, has written
\* every complete element when it returns, and saves exactly what it wrote.
C36_EachElementOnce ==
  tool.op = "requestSuggestions" =>
     /\ \A i, j \in DOMAIN tool.written : tool.written[i] = tool.written[j] => i = j
     /\ tool.result = "Suggestions have been added to the document" =>
          /\ \A k \in DOMAIN tool.output :
               IsComplete(tool.output[k]) => (k - 1) \in Range(tool.written)
          /\ tool.hasSession => tool.saved = tool.written

\* C37: createDocument does not throw for want of a handler.
C37_EveryKindHasHandler ==
  tool.op = "createDocument" =>
     /\ tool.result # "throw: No document handler found"
     /\ \A i \in DOMAIN tool.saved : tool.saved[i].kind \in {"text", "code", "sheet"}

DocumentEvents == {"data-kind", "data-id", "data-title", "data-clear", "data-finish"}

Types(written) == [i \in DOMAIN written |-> written[i].type]

\* C38: a createDocument invocation writes data-kind, data-id, data-title and
\* data-clear in that order, then only the handler's content deltas, then
\* data-finish once and last when it succeeds; the document is saved with the
\* final draft, and only for a session with a user id, before data-finish is
\* written; when the handler fails there is no data-finish and no saved
\* document.
C38_CreateDocumentProtocol ==
  tool.op = "createDocument" =>
    LET written == tool.written
        finishes == {i \in DOMAIN written : written[i].type = "data-finish"}
        deltas == {i \in DOMAIN written : written[i].type \notin DocumentEvents}
        lastDelta == IF deltas = {} THEN ""
                     ELSE written[CHOOSE i \in deltas : \A j \in deltas : j <= i].data
        document == [kind |-> tool.kind, content |-> lastDelta]
    IN /\ SubSeq(Types(written), 1, 4)
            = <<"data-kind", "data-id", "data-title", "data-clear">>
       /\ \A i \in DOMAIN written :
            i > 4 => \/ written[i].type = DeltaType(tool.kind)
                     \/ written[i].type = "data-finish" /\ i = Len(written)
       /\ tool.result = "ok" <=> finishes = {Len(written)}
       /\ finishes # {} => tool.saved = IF tool.hasSession THEN <<document>> ELSE <<>>
       /\ tool.pc = "finish" => tool.saved = IF tool.hasSession THEN <<document>> ELSE <<>>
       /\ tool.result \notin {"-", "ok"} => finishes = {} /\ tool.saved = <<>>

C38_Witness ==
  /\ tool.op = "createDocument"
  /\ tool.result = "ok"
  /\ tool.hasSession
  /\ Len(tool.written) = 7
  /\ tool.saved = <<[kind |-> "code", content |-> "draft 2"]>>

\* C39: updateDocument and requestSuggestions on a missing document, and
\* requestSuggestions on a document without content, return the error result
\* without throwing, write no event and save nothing.
C39_MissingDocument ==
  (/\ tool.op \in {"updateDocument", "requestSuggestions"}
   /\ \/ tool.document = "missing"
      \/ tool.op = "requestSuggestions" /\ tool.document = "empty")
  => /\ tool.result = "Document not found"
     /\ tool.written = <<>>
     /\ tool.saved = <<>>

C39_Witness ==
  /\ tool.op = "updateDocument"
  /\ tool.document = "missing"
  /\ tool.result = "Document not found"
  /\ tool.written = <<>>
====
